---- MODULE Spec2Model ----
(***************************************************************************)
(* A model of cppcheck's Library (library.cpp): the loader that turns a    *)
(* configuration document into descriptor tables, the allocation group-id  *)
(* registry, the validity-expression grammar check and the arity matcher.  *)
(*                                                                         *)
(* Representation of text.  An attribute value or an element text is a     *)
(* sequence of chunks (TLA+ strings).  In a list of names a chunk is a     *)
(* maximal comma-free run of characters and "," is a chunk of its own; in  *)
(* a validity expression every character is a chunk; in a buffer-size      *)
(* attribute the first chunk holds the first six characters and every      *)
(* later character is a chunk.  A missing attribute is a missing field of  *)
(* the element's attr record, a missing text is NoText.                    *)
(***************************************************************************)
EXTENDS Integers, Sequences, FiniteSets, TLC

VARIABLES lib, pre, last, okPaths, fs, nOps

vars == <<lib, pre, last, okPaths, fs, nOps>>

(***************************************************************************)
(* Generic helpers                                                         *)
(***************************************************************************)
EmptyMap == [k \in {} |-> 0]

Put(m, k, v) == [x \in (DOMAIN m) \cup {k} |-> IF x = k THEN v ELSE m[x]]

NoAttr == [a \in {} |-> <<>>]

NoText == <<"<null>">>

E(n, at, tx, k) == [name |-> n, attr |-> at, text |-> tx, kids |-> k]

HasAttribute(node, a) == a \in DOMAIN node.attr

IntTable ==
    [s \in {"-1", "0", "1", "2", "3", "4", "5"} |->
        CASE s = "-1" -> -1 [] s = "0" -> 0 [] s = "1" -> 1 [] s = "2" -> 2
          [] s = "3" -> 3 [] s = "4" -> 4 [] s = "5" -> 5]

IsIntText(v) == Len(v) = 1 /\ v[1] \in DOMAIN IntTable

\* tinyxml2 IntAttribute: the default when the attribute is missing or is no number
IntAttribute(node, a, default) ==
    IF HasAttribute(node, a) /\ IsIntText(node.attr[a]) THEN IntTable[node.attr[a][1]]
    ELSE default

\* tinyxml2 BoolAttribute: the default when the attribute is missing or is no boolean
BoolAttribute(node, a, default) ==
    IF ~HasAttribute(node, a) THEN default
    ELSE IF node.attr[a] = <<"true">> THEN TRUE
    ELSE IF node.attr[a] = <<"false">> THEN FALSE
    ELSE default

(***************************************************************************)
(* Load results                                                            *)
(***************************************************************************)
Error(code, reason) == [errorcode |-> code, reason |-> reason]

OK == Error("OK", <<>>)

Thrown == Error("EXCEPTION", <<>>)

NoError == Error("<running>", <<>>)

(***************************************************************************)
(* LibraryData                                                             *)
(***************************************************************************)
LibraryData ==
    [mAllocId |-> 0, mFiles |-> {},
     mAlloc |-> EmptyMap, mDealloc |-> EmptyMap, mRealloc |-> EmptyMap,
     mFunctions |-> EmptyMap, mDefines |-> {}, mNoReturn |-> EmptyMap,
     mReflection |-> EmptyMap, mMarkupExtensions |-> {}, mKeywords |-> EmptyMap,
     mContainers |-> EmptyMap, mSmartPointers |-> EmptyMap, mTypeChecks |-> EmptyMap,
     mPodTypes |-> EmptyMap, mPlatformTypes |-> EmptyMap, mPlatforms |-> EmptyMap,
     mEntrypoints |-> {}]

AllocFunc ==
    [groupId |-> 0, arg |-> 0, bufferSize |-> "none", bufferSizeArg1 |-> 0,
     bufferSizeArg2 |-> 0, reallocArg |-> 0, initData |-> FALSE, noFail |-> FALSE]

ArgumentChecks ==
    [notbool |-> FALSE, notnull |-> FALSE, notuninit |-> -1, formatstr |-> FALSE,
     strz |-> FALSE, optional |-> FALSE, variadic |-> FALSE, valid |-> <<>>]

Function ==
    [argumentChecks |-> EmptyMap, use |-> FALSE, leakignore |-> FALSE,
     isconst |-> FALSE, ispure |-> FALSE, ignore |-> FALSE, formatstr |-> FALSE,
     formatstr_scan |-> FALSE, formatstr_secure |-> FALSE]

\* std::map / std::unordered_map operator[]: the entry, default-constructed when absent
At(m, k, default) == IF k \in DOMAIN m THEN m[k] ELSE default

(***************************************************************************)
(* getnames: split a list of names at its commas                           *)
(***************************************************************************)
FirstComma(names) ==
    IF \E i \in 1..Len(names) : names[i] = ","
    THEN CHOOSE i \in 1..Len(names) : names[i] = "," /\ \A j \in 1..(i - 1) : names[j] # ","
    ELSE 0

NameOf(run) == IF run = <<>> THEN "" ELSE run[1]

RECURSIVE getnames(_)
getnames(names) ==
    LET p == FirstComma(names)
    IN  IF p = 0 THEN <<NameOf(names)>>
        ELSE <<NameOf(SubSeq(names, 1, p - 1))>> \o getnames(SubSeq(names, p + 1, Len(names)))

(***************************************************************************)
(* The two id spaces                                                       *)
(***************************************************************************)
ismemory(id) == id > 0 /\ id % 2 = 0

isresource(id) == id > 0 /\ id % 2 = 1

\* the minting loop without its pre-increment: the counter stays where it is when it
\* already is an id of the block's kind
NextAllocIdStuck(mAllocId, nodename) ==
    LET fits(id) == IF nodename = "memory" THEN ismemory(id) ELSE isresource(id)
    IN  IF fits(mAllocId) THEN mAllocId
        ELSE IF fits(mAllocId + 1) THEN mAllocId + 1
        ELSE mAllocId + 2

\* while (!ismemory(++mAllocId)) {}   /   while (!isresource(++mAllocId)) {}
RECURSIVE NextAllocId(_, _)
NextAllocId(mAllocId, nodename) ==
    LET id == mAllocId + 1
    IN  IF (nodename = "memory" /\ ismemory(id)) \/ (nodename # "memory" /\ isresource(id))
        THEN id
        ELSE NextAllocId(id, nodename)

(***************************************************************************)
(* memory / resource blocks                                                *)
(***************************************************************************)
RECURSIVE FirstKnownDealloc(_, _, _)
FirstKnownDealloc(names, i, mDealloc) ==
    IF i > Len(names) THEN 0
    ELSE IF names[i] \in DOMAIN mDealloc THEN mDealloc[names[i]].groupId
    ELSE FirstKnownDealloc(names, i + 1, mDealloc)

\* the first pass over a block: the group id of the first dealloc name already known,
\* -1 when getnames is handed the null text of an empty dealloc element
RECURSIVE ScanDealloc(_, _, _)
ScanDealloc(kids, i, mDealloc) ==
    IF i > Len(kids) THEN 0
    ELSE IF kids[i].name = "dealloc"
    THEN IF kids[i].text = NoText THEN -1
         ELSE LET id == FirstKnownDealloc(getnames(kids[i].text), 1, mDealloc)
              IN  IF id # 0 THEN id ELSE ScanDealloc(kids, i + 1, mDealloc)
    ELSE ScanDealloc(kids, i + 1, mDealloc)

\* bufferSize[k] for k >= 6, 0 past the end of the string
BufferSizeChar(bufferSize, k) ==
    IF k - 4 <= Len(bufferSize) THEN bufferSize[k - 4] ELSE "<nul>"

IsArgDigit(c) == c \in {"1", "2", "3", "4", "5"}

BufferSizeKind(bufferSize) ==
    IF bufferSize # <<>> /\ bufferSize[1] \in {"malloc", "calloc", "strdup"}
    THEN bufferSize[1]
    ELSE "<bad>"

\* the buffer-size attribute of an alloc or realloc element: "<bad>" or the three fields
ParseBufferSize(bufferSize) ==
    LET kind == BufferSizeKind(bufferSize)
        c6 == BufferSizeChar(bufferSize, 6)
        c7 == BufferSizeChar(bufferSize, 7)
        c8 == BufferSizeChar(bufferSize, 8)
        c9 == BufferSizeChar(bufferSize, 9)
    IN  IF kind = "<bad>" THEN [ok |-> FALSE, kind |-> kind, arg1 |-> 0, arg2 |-> 0]
        ELSE IF c6 = "<nul>" THEN [ok |-> TRUE, kind |-> kind, arg1 |-> 1, arg2 |-> 2]
        ELSE IF c6 = ":" /\ IsArgDigit(c7)
        THEN [ok |-> TRUE, kind |-> kind, arg1 |-> IntTable[c7],
              arg2 |-> IF c8 = "," /\ IsArgDigit(c9) THEN IntTable[c9] ELSE 2]
        ELSE [ok |-> FALSE, kind |-> kind, arg1 |-> 0, arg2 |-> 0]

RECURSIVE PutAll(_, _, _, _)
PutAll(m, names, i, v) ==
    IF i > Len(names) THEN m ELSE PutAll(Put(m, names[i], v), names, i + 1, v)

RECURSIVE UseAll(_, _, _)
UseAll(mFunctions, names, i) ==
    IF i > Len(names) THEN mFunctions
    ELSE UseAll(Put(mFunctions, names[i],
                    [At(mFunctions, names[i], Function) EXCEPT !.use = TRUE]),
                names, i + 1)

\* one child of a memory or resource block, in the second pass
MemoryNode(st, memorynode, allocationId) ==
    LET names == getnames(memorynode.text)
        bs == IF HasAttribute(memorynode, "buffer-size")
              THEN ParseBufferSize(memorynode.attr["buffer-size"])
              ELSE [ok |-> TRUE, kind |-> "none", arg1 |-> 0, arg2 |-> 0]
        temp == [AllocFunc EXCEPT
                    !.groupId = allocationId,
                    !.noFail = BoolAttribute(memorynode, "no-fail", FALSE),
                    !.initData = BoolAttribute(memorynode, "init", TRUE),
                    !.arg = IntAttribute(memorynode, "arg", -1),
                    !.bufferSize = bs.kind,
                    !.bufferSizeArg1 = bs.arg1,
                    !.bufferSizeArg2 = bs.arg2,
                    !.reallocArg = IF memorynode.name = "realloc"
                                   THEN IntAttribute(memorynode, "realloc-arg", 1)
                                   ELSE 0]
        dtemp == [AllocFunc EXCEPT !.groupId = allocationId,
                                   !.arg = IntAttribute(memorynode, "arg", 1)]
    IN  CASE memorynode.text = NoText -> [st EXCEPT !.err = Error("CRASH", <<>>)]
          [] memorynode.name \in {"alloc", "realloc"} ->
               IF ~bs.ok
               THEN [st EXCEPT !.err = Error("BAD_ATTRIBUTE_VALUE", memorynode.attr["buffer-size"])]
               ELSE IF memorynode.name = "realloc"
               THEN [st EXCEPT !.data.mRealloc = PutAll(@, names, 1, temp)]
               ELSE [st EXCEPT !.data.mAlloc = PutAll(@, names, 1, temp)]
          [] memorynode.name = "dealloc" ->
               [st EXCEPT !.data.mDealloc = PutAll(@, names, 1, dtemp)]
          [] memorynode.name = "use" ->
               [st EXCEPT !.data.mFunctions = UseAll(@, names, 1)]
          [] OTHER ->
               [st EXCEPT !.unknown = @ \cup {memorynode.name}]

RECURSIVE MemoryNodes(_, _, _, _)
MemoryNodes(st, kids, i, allocationId) ==
    IF i > Len(kids) \/ st.err # NoError THEN st
    ELSE MemoryNodes(MemoryNode(st, kids[i], allocationId), kids, i + 1, allocationId)

\* a block whose minted id is not kept in the counter of the instance
LoadMemoryForgetsId(st, node) ==
    LET known == ScanDealloc(node.kids, 1, st.data.mDealloc)
        minted == NextAllocId(st.data.mAllocId, node.name)
        allocationId == IF known = 0 THEN minted ELSE known
    IN  IF known = -1 THEN [st EXCEPT !.err = Error("CRASH", <<>>)]
        ELSE MemoryNodes(st, node.kids, 1, allocationId)

LoadMemory(st, node) ==
    LET known == ScanDealloc(node.kids, 1, st.data.mDealloc)
        minted == NextAllocId(st.data.mAllocId, node.name)
        st1 == IF known = 0 THEN [st EXCEPT !.data.mAllocId = minted] ELSE st
        allocationId == IF known = 0 THEN minted ELSE known
    IN  IF known = -1 THEN [st EXCEPT !.err = Error("CRASH", <<>>)]
        ELSE MemoryNodes(st1, node.kids, 1, allocationId)

(***************************************************************************)
(* define                                                                  *)
(***************************************************************************)
LoadDefine(st, node) ==
    IF ~HasAttribute(node, "name") THEN [st EXCEPT !.err = Error("MISSING_ATTRIBUTE", <<"name">>)]
    ELSE IF ~HasAttribute(node, "value") THEN [st EXCEPT !.err = Error("MISSING_ATTRIBUTE", <<"value">>)]
    ELSE LET d == <<node.attr["name"], node.attr["value"]>>
         IN  IF d \in st.data.mDefines
             THEN [st EXCEPT !.err = Error("DUPLICATE_DEFINE", node.attr["name"])]
             ELSE [st EXCEPT !.data.mDefines = @ \cup {d}]

(***************************************************************************)
(* isCompliantValidationExpression                                         *)
(***************************************************************************)
isdigit(c) == c \in {"0", "1", "2", "3", "4", "5", "6", "7", "8", "9"}

\* *(p + 1): the next character, the terminating 0 at the end of the string
CharAt(p, i) == IF i <= Len(p) THEN p[i] ELSE "<nul>"

\* the scan without its memory of an exponent letter
RECURSIVE ValidationScanForgetsE(_, _, _, _, _, _)
ValidationScanForgetsE(p, i, error, range, has_dot, has_E) ==
    LET c == CharAt(p, i)
        n == CharAt(p, i + 1)
    IN  IF c = "<nul>" THEN ~error
        ELSE IF isdigit(c)
        THEN ValidationScanForgetsE(p, i + 1, error \/ (n = "-"), range, has_dot, has_E)
        ELSE IF c = ":"
        THEN ValidationScanForgetsE(p, i + 1, error \/ range \/ (n = "."), TRUE, FALSE, FALSE)
        ELSE IF c = "-" \/ c = "+"
        THEN ValidationScanForgetsE(p, i + 1, error \/ ~isdigit(n), range, has_dot, has_E)
        ELSE IF c = ","
        THEN ValidationScanForgetsE(p, i + 1, error \/ (n = "."), FALSE, FALSE, FALSE)
        ELSE IF c = "."
        THEN ValidationScanForgetsE(p, i + 1, error \/ has_dot \/ ~isdigit(n), range, TRUE, has_E)
        ELSE IF c = "E" \/ c = "e"
        THEN ValidationScanForgetsE(p, i + 1, error \/ has_E, range, has_dot, FALSE)
        ELSE IF c = "!"
        THEN ValidationScanForgetsE(p, i + 1, error \/ ~(n = "-" \/ n = "+" \/ isdigit(n)),
                                    range, has_dot, has_E)
        ELSE FALSE

RECURSIVE ValidationScan(_, _, _, _, _, _)
ValidationScan(p, i, error, range, has_dot, has_E) ==
    LET c == CharAt(p, i)
        n == CharAt(p, i + 1)
    IN  IF c = "<nul>" THEN ~error
        ELSE IF isdigit(c)
        THEN ValidationScan(p, i + 1, error \/ (n = "-"), range, has_dot, has_E)
        ELSE IF c = ":"
        THEN ValidationScan(p, i + 1, error \/ range \/ (n = "."), TRUE, FALSE, FALSE)
        ELSE IF c = "-" \/ c = "+"
        THEN ValidationScan(p, i + 1, error \/ ~isdigit(n), range, has_dot, has_E)
        ELSE IF c = ","
        THEN ValidationScan(p, i + 1, error \/ (n = "."), FALSE, FALSE, FALSE)
        ELSE IF c = "."
        THEN ValidationScan(p, i + 1, error \/ has_dot \/ ~isdigit(n), range, TRUE, has_E)
        ELSE IF c = "E" \/ c = "e"
        THEN ValidationScan(p, i + 1, error \/ has_E, range, has_dot, TRUE)
        ELSE IF c = "!"
        THEN ValidationScan(p, i + 1, error \/ ~(n = "-" \/ n = "+" \/ isdigit(n)),
                            range, has_dot, has_E)
        ELSE FALSE

\* the test without error = *p == '.'
isCompliantValidationExpressionAnyStart(p) ==
    IF p = NoText \/ p = <<>> THEN FALSE
    ELSE ValidationScan(p, 1, FALSE, FALSE, FALSE, FALSE)

isCompliantValidationExpression(p) ==
    IF p = NoText \/ p = <<>> THEN FALSE
    ELSE ValidationScan(p, 1, p[1] = ".", FALSE, FALSE, FALSE)

(***************************************************************************)
(* loadFunction                                                            *)
(***************************************************************************)
\* strToInt<int>: the number, or a std::runtime_error when the text is no number
StrToIntThrows(v) == ~IsIntText(v)

StrToInt(v) == IntTable[v[1]]

actionFrom(actionName) ==
    IF actionName \in {<<"resize">>, <<"clear">>, <<"push">>, <<"pop">>, <<"find">>,
                       <<"find-const">>, <<"insert">>, <<"erase">>, <<"append">>,
                       <<"change-content">>, <<"change-internal">>, <<"change">>}
    THEN actionName[1] ELSE "NO_ACTION"

yieldFrom(yieldName) ==
    IF yieldName \in {<<"at_index">>, <<"item">>, <<"buffer">>, <<"buffer-nt">>,
                      <<"start-iterator">>, <<"end-iterator">>, <<"iterator">>,
                      <<"size">>, <<"empty">>}
    THEN yieldName[1] ELSE "NO_YIELD"

\* a child of an arg element, with ac.valid = p moved in front of the compliance test
ArgNodeStoresFirst(w, argnode) ==
    LET n == argnode.name
    IN  IF HasAttribute(argnode, "indirect") /\ StrToIntThrows(argnode.attr["indirect"])
        THEN [w EXCEPT !.err = Thrown]
        ELSE CASE n = "not-bool" -> [w EXCEPT !.ac.notbool = TRUE]
               [] n = "not-null" -> [w EXCEPT !.ac.notnull = TRUE]
               [] n = "formatstr" -> [w EXCEPT !.ac.formatstr = TRUE]
               [] n = "strz" -> [w EXCEPT !.ac.strz = TRUE]
               [] n = "valid" ->
                    IF argnode.text = NoText
                    THEN [w EXCEPT !.err = Error("BAD_ATTRIBUTE_VALUE", <<"\"\"">>)]
                    ELSE IF ~isCompliantValidationExpression(argnode.text)
                    THEN [w EXCEPT !.ac.valid = argnode.text,
                                   !.err = Error("BAD_ATTRIBUTE_VALUE", argnode.text)]
                    ELSE [w EXCEPT !.ac.valid = argnode.text]
               [] n \in {"not-uninit", "minsize", "iterator"} -> w
               [] OTHER -> [w EXCEPT !.unknown = @ \cup {n}]

\* one child of an arg element; w = [ac, unknown, err]
ArgNode(w, argnode) ==
    LET badIndirect == HasAttribute(argnode, "indirect") /\ StrToIntThrows(argnode.attr["indirect"])
        indirect == IF HasAttribute(argnode, "indirect") THEN StrToInt(argnode.attr["indirect"]) ELSE 0
        n == argnode.name
    IN  IF badIndirect THEN [w EXCEPT !.err = Thrown]
        ELSE CASE n = "not-bool" -> [w EXCEPT !.ac.notbool = TRUE]
               [] n = "not-null" -> [w EXCEPT !.ac.notnull = TRUE]
               [] n = "not-uninit" -> [w EXCEPT !.ac.notuninit = indirect]
               [] n = "formatstr" -> [w EXCEPT !.ac.formatstr = TRUE]
               [] n = "strz" -> [w EXCEPT !.ac.strz = TRUE]
               [] n = "valid" ->
                    IF ~isCompliantValidationExpression(argnode.text)
                    THEN [w EXCEPT !.err = Error("BAD_ATTRIBUTE_VALUE",
                                                 IF argnode.text = NoText THEN <<"\"\"">> ELSE argnode.text)]
                    ELSE [w EXCEPT !.ac.valid = argnode.text]
               [] n = "minsize" ->
                    IF ~HasAttribute(argnode, "type")
                    THEN [w EXCEPT !.err = Error("MISSING_ATTRIBUTE", <<"type">>)]
                    ELSE IF argnode.attr["type"] \notin
                            {<<"strlen">>, <<"argvalue">>, <<"sizeof">>, <<"mul">>, <<"value">>}
                    THEN [w EXCEPT !.err = Error("BAD_ATTRIBUTE_VALUE", argnode.attr["type"])]
                    ELSE IF argnode.attr["type"] = <<"value">>
                    THEN IF ~HasAttribute(argnode, "value")
                         THEN [w EXCEPT !.err = Error("MISSING_ATTRIBUTE", <<"value">>)]
                         ELSE IF StrToIntThrows(argnode.attr["value"]) \/ StrToInt(argnode.attr["value"]) <= 0
                         THEN [w EXCEPT !.err = Error("BAD_ATTRIBUTE_VALUE", argnode.attr["value"])]
                         ELSE w
                    ELSE IF ~HasAttribute(argnode, "arg")
                    THEN [w EXCEPT !.err = Error("MISSING_ATTRIBUTE", <<"arg">>)]
                    ELSE IF ~(Len(argnode.attr["arg"]) = 1 /\ isdigit(argnode.attr["arg"][1]))
                    THEN [w EXCEPT !.err = Error("BAD_ATTRIBUTE_VALUE", argnode.attr["arg"])]
                    ELSE w
               [] n = "iterator" -> w
               [] OTHER -> [w EXCEPT !.unknown = @ \cup {n}]

RECURSIVE ArgNodes(_, _, _)
ArgNodes(w, kids, i) ==
    IF i > Len(kids) \/ w.err # NoError THEN w
    ELSE ArgNodes(ArgNode(w, kids[i]), kids, i + 1)

\* an arg element of function `name`; every write goes through references into the table
LoadArg(st, functionnode, name) ==
    IF ~HasAttribute(functionnode, "nr")
    THEN [st EXCEPT !.err = Error("MISSING_ATTRIBUTE", <<"nr">>)]
    ELSE LET argNrString == functionnode.attr["nr"]
             bAnyArg == argNrString = <<"any">>
             bVariadicArg == argNrString = <<"variadic">>
         IN  IF ~(bAnyArg \/ bVariadicArg) /\ StrToIntThrows(argNrString)
             THEN [st EXCEPT !.err = Thrown]
             ELSE LET nr == IF bAnyArg \/ bVariadicArg THEN -1 ELSE StrToInt(argNrString)
                      func == st.data.mFunctions[name]
                      ac0 == [At(func.argumentChecks, nr, ArgumentChecks) EXCEPT
                                 !.optional = HasAttribute(functionnode, "default"),
                                 !.variadic = bVariadicArg]
                      w == ArgNodes([ac |-> ac0, unknown |-> st.unknown, err |-> NoError],
                                    functionnode.kids, 1)
                      ac == IF w.err = NoError /\ w.ac.notuninit = 0
                            THEN [w.ac EXCEPT !.notuninit = IF w.ac.notnull THEN 1 ELSE 0]
                            ELSE w.ac
                  IN  [st EXCEPT !.data.mFunctions[name].argumentChecks = Put(@, nr, ac),
                                 !.unknown = w.unknown,
                                 !.err = w.err]

\* one child of a function element, for the function `name`
FunctionNode(st, functionnode, name) ==
    LET n == functionnode.name
    IN  CASE n = "noreturn" ->
               IF functionnode.text = NoText THEN [st EXCEPT !.err = Error("CRASH", <<>>)]
               ELSE [st EXCEPT !.data.mNoReturn =
                        Put(@, name, IF functionnode.text = <<"false">> THEN "False"
                                     ELSE IF functionnode.text = <<"maybe">> THEN "Maybe"
                                     ELSE "True")]
          [] n = "pure" -> [st EXCEPT !.data.mFunctions[name].ispure = TRUE]
          [] n = "const" -> [st EXCEPT !.data.mFunctions[name].ispure = TRUE,
                                       !.data.mFunctions[name].isconst = TRUE]
          [] n = "leak-ignore" -> [st EXCEPT !.data.mFunctions[name].leakignore = TRUE]
          [] n \in {"not-overlapping-data", "use-retval", "returnValue"} -> st
          [] n = "arg" -> LoadArg(st, functionnode, name)
          [] n = "ignorefunction" -> [st EXCEPT !.data.mFunctions[name].ignore = TRUE]
          [] n = "formatstr" ->
               [st EXCEPT !.data.mFunctions[name].formatstr = TRUE,
                          !.data.mFunctions[name].formatstr_scan = BoolAttribute(functionnode, "scan", FALSE),
                          !.data.mFunctions[name].formatstr_secure = BoolAttribute(functionnode, "secure", FALSE)]
          [] n = "warn" ->
               IF ~HasAttribute(functionnode, "severity")
               THEN [st EXCEPT !.err = Error("MISSING_ATTRIBUTE", <<"severity">>)]
               ELSE IF ~(HasAttribute(functionnode, "reason") /\ HasAttribute(functionnode, "alternatives"))
                       /\ functionnode.text = NoText
               THEN [st EXCEPT !.err = Error("MISSING_ATTRIBUTE",
                                             <<"\"reason\" and \"alternatives\" or some text.">>)]
               ELSE st
          [] n = "container" ->
               IF HasAttribute(functionnode, "action") /\ actionFrom(functionnode.attr["action"]) = "NO_ACTION"
               THEN [st EXCEPT !.err = Error("BAD_ATTRIBUTE_VALUE", functionnode.attr["action"])]
               ELSE IF HasAttribute(functionnode, "yields") /\ yieldFrom(functionnode.attr["yields"]) = "NO_YIELD"
               THEN [st EXCEPT !.err = Error("BAD_ATTRIBUTE_VALUE", functionnode.attr["yields"])]
               ELSE st
          [] OTHER -> [st EXCEPT !.unknown = @ \cup {n}]

RECURSIVE FunctionNodes(_, _, _, _)
FunctionNodes(st, kids, i, name) ==
    IF i > Len(kids) \/ st.err # NoError THEN st
    ELSE FunctionNodes(FunctionNode(st, kids[i], name), kids, i + 1, name)

loadFunction(st, node, name) ==
    IF name = "" THEN st
    ELSE FunctionNodes([st EXCEPT !.data.mFunctions = Put(@, name, At(@, name, Function))],
                       node.kids, 1, name)

RECURSIVE LoadFunctions(_, _, _, _)
LoadFunctions(st, node, names, i) ==
    IF i > Len(names) \/ st.err # NoError THEN st
    ELSE LoadFunctions(loadFunction(st, node, names[i]), node, names, i + 1)

\* a function element whose missing name attribute is read as an empty list of names
LoadFunctionElementUnnamed(st, node) ==
    IF ~HasAttribute(node, "name") THEN st
    ELSE LoadFunctions(st, node, getnames(node.attr["name"]), 1)

LoadFunctionElement(st, node) ==
    IF ~HasAttribute(node, "name") THEN [st EXCEPT !.err = Error("MISSING_ATTRIBUTE", <<"name">>)]
    ELSE LoadFunctions(st, node, getnames(node.attr["name"]), 1)

(***************************************************************************)
(* std::set<std::string> iteration: ascending order of the strings.  The   *)
(* model orders the strings it uses by their place in NameOrder.           *)
(***************************************************************************)
NameOrder ==
    <<"", "bar", "extra", "foo", "linux", "odd", "stray", "unix", "win", "zap">>

Rank(s) == IF \E i \in 1..Len(NameOrder) : NameOrder[i] = s
           THEN CHOOSE i \in 1..Len(NameOrder) : NameOrder[i] = s
           ELSE Len(NameOrder) + 1

RECURSIVE Ascending(_)
Ascending(S) ==
    IF S = {} THEN <<>>
    ELSE LET m == CHOOSE x \in S : \A y \in S : Rank(x) <= Rank(y)
         IN  <<m>> \o Ascending(S \ {m})

(***************************************************************************)
(* reflection, markup                                                      *)
(***************************************************************************)
ReflectionNode(st, reflectionnode) ==
    IF reflectionnode.name # "call" THEN [st EXCEPT !.unknown = @ \cup {reflectionnode.name}]
    ELSE IF ~HasAttribute(reflectionnode, "arg")
    THEN [st EXCEPT !.err = Error("MISSING_ATTRIBUTE", <<"arg">>)]
    ELSE IF StrToIntThrows(reflectionnode.attr["arg"]) THEN [st EXCEPT !.err = Thrown]
    ELSE IF reflectionnode.text = NoText THEN [st EXCEPT !.err = Error("CRASH", <<>>)]
    ELSE [st EXCEPT !.data.mReflection =
             Put(@, NameOf(reflectionnode.text), StrToInt(reflectionnode.attr["arg"]))]

RECURSIVE ReflectionNodes(_, _, _)
ReflectionNodes(st, kids, i) ==
    IF i > Len(kids) \/ st.err # NoError THEN st
    ELSE ReflectionNodes(ReflectionNode(st, kids[i]), kids, i + 1)

LoadReflection(st, node) == ReflectionNodes(st, node.kids, 1)

\* a child of a keywords element of the markup for `extension`
KeywordNode(st, librarynode, extension) ==
    IF librarynode.name # "keyword" THEN [st EXCEPT !.unknown = @ \cup {librarynode.name}]
    ELSE IF ~HasAttribute(librarynode, "name")
    THEN [st EXCEPT !.err = Error("MISSING_ATTRIBUTE", <<"name">>)]
    ELSE [st EXCEPT !.data.mKeywords =
             Put(@, extension, At(@, extension, {}) \cup {librarynode.attr["name"]})]

RECURSIVE KeywordNodes(_, _, _, _)
KeywordNodes(st, kids, i, extension) ==
    IF i > Len(kids) \/ st.err # NoError THEN st
    ELSE KeywordNodes(KeywordNode(st, kids[i], extension), kids, i + 1, extension)

\* the children of an exporter: prefix, suffix, or unknown
ExporterKids(st, kids) ==
    [st EXCEPT !.unknown = @ \cup {kids[i].name : i \in {j \in 1..Len(kids) :
                                                    kids[j].name \notin {"prefix", "suffix"}}}]

ExporterNode(st, exporter) ==
    IF exporter.name # "exporter" THEN [st EXCEPT !.unknown = @ \cup {exporter.name}]
    ELSE IF ~HasAttribute(exporter, "prefix")
    THEN [st EXCEPT !.err = Error("MISSING_ATTRIBUTE", <<"prefix">>)]
    ELSE ExporterKids(st, exporter.kids)

RECURSIVE ExporterNodes(_, _, _)
ExporterNodes(st, kids, i) ==
    IF i > Len(kids) \/ st.err # NoError THEN st
    ELSE ExporterNodes(ExporterNode(st, kids[i]), kids, i + 1)

\* the children of imported (only importer is known) and of codeblocks (block, structure)
OtherMarkupKids(st, kids, known) ==
    [st EXCEPT !.unknown = @ \cup {kids[i].name : i \in {j \in 1..Len(kids) :
                                                    kids[j].name \notin known}}]

MarkupNode(st, markupnode, extension) ==
    CASE markupnode.name = "keywords" -> KeywordNodes(st, markupnode.kids, 1, extension)
      [] markupnode.name = "exported" -> ExporterNodes(st, markupnode.kids, 1)
      [] markupnode.name = "imported" -> OtherMarkupKids(st, markupnode.kids, {"importer"})
      [] markupnode.name = "codeblocks" -> OtherMarkupKids(st, markupnode.kids, {"block", "structure"})
      [] OTHER -> [st EXCEPT !.unknown = @ \cup {markupnode.name}]

RECURSIVE MarkupNodes(_, _, _, _)
MarkupNodes(st, kids, i, extension) ==
    IF i > Len(kids) \/ st.err # NoError THEN st
    ELSE MarkupNodes(MarkupNode(st, kids[i], extension), kids, i + 1, extension)

LoadMarkup(st, node) ==
    IF ~HasAttribute(node, "ext") THEN [st EXCEPT !.err = Error("MISSING_ATTRIBUTE", <<"ext">>)]
    ELSE MarkupNodes([st EXCEPT !.data.mMarkupExtensions = @ \cup {node.attr["ext"]}],
                     node.kids, 1, node.attr["ext"])

(***************************************************************************)
(* container                                                               *)
(***************************************************************************)
Container ==
    [startPattern |-> <<>>, startPattern2 |-> <<>>, endPattern |-> <<>>,
     itEndPattern |-> <<>>, opLessAllowed |-> TRUE, hasInitializerListConstructor |-> TRUE,
     view |-> FALSE, functions |-> EmptyMap, size_templateArgNo |-> -1,
     type_templateArgNo |-> -1, arrayLike_indexOp |-> FALSE, stdStringLike |-> FALSE,
     stdAssociativeLike |-> FALSE, unstableErase |-> FALSE, unstableInsert |-> FALSE,
     rangeItemRecordType |-> <<>>]

ContainerFunction == [action |-> "NO_ACTION", yield |-> "NO_YIELD", returnType |-> <<>>]

\* a child of size, access or other, for the container `id`
ContainerFunctionNode(st, functionNode, id) ==
    IF functionNode.name # "function" THEN [st EXCEPT !.unknown = @ \cup {functionNode.name}]
    ELSE IF ~HasAttribute(functionNode, "name")
    THEN [st EXCEPT !.err = Error("MISSING_ATTRIBUTE", <<"name">>)]
    ELSE IF HasAttribute(functionNode, "action") /\ actionFrom(functionNode.attr["action"]) = "NO_ACTION"
    THEN [st EXCEPT !.err = Error("BAD_ATTRIBUTE_VALUE", functionNode.attr["action"])]
    ELSE IF HasAttribute(functionNode, "yields") /\ yieldFrom(functionNode.attr["yields"]) = "NO_YIELD"
    THEN [st EXCEPT !.err = Error("BAD_ATTRIBUTE_VALUE", functionNode.attr["yields"])]
    ELSE LET functionName == functionNode.attr["name"]
             old == At(st.data.mContainers[id].functions, functionName, ContainerFunction)
             new == [action |-> IF HasAttribute(functionNode, "action")
                                THEN actionFrom(functionNode.attr["action"]) ELSE "NO_ACTION",
                     yield |-> IF HasAttribute(functionNode, "yields")
                               THEN yieldFrom(functionNode.attr["yields"]) ELSE "NO_YIELD",
                     returnType |-> IF HasAttribute(functionNode, "returnType")
                                    THEN functionNode.attr["returnType"] ELSE old.returnType]
         IN  [st EXCEPT !.data.mContainers[id].functions = Put(@, functionName, new)]

RECURSIVE ContainerFunctionNodes(_, _, _, _)
ContainerFunctionNodes(st, kids, i, id) ==
    IF i > Len(kids) \/ st.err # NoError THEN st
    ELSE ContainerFunctionNodes(ContainerFunctionNode(st, kids[i], id), kids, i + 1, id)

\* rangeItemRecordType: one item per child of `node`, the container element itself
RECURSIVE RangeItems(_, _)
RangeItems(kids, i) ==
    IF i > Len(kids) THEN <<>>
    ELSE <<[name |-> IF HasAttribute(kids[i], "name") THEN kids[i].attr["name"] ELSE <<>>,
            templateParameter |-> IF HasAttribute(kids[i], "templateParameter")
                                  THEN StrToInt(kids[i].attr["templateParameter"]) ELSE -1]>>
         \o RangeItems(kids, i + 1)

RangeItemsThrow(kids) ==
    \E i \in 1..Len(kids) : HasAttribute(kids[i], "templateParameter")
                            /\ StrToIntThrows(kids[i].attr["templateParameter"])

\* one child of the container element `node` with id `id`
ContainerNode(st, containerNode, node, id) ==
    LET n == containerNode.name
        badTemplateArg == HasAttribute(containerNode, "templateParameter")
                          /\ StrToIntThrows(containerNode.attr["templateParameter"])
    IN  CASE n \in {"size", "access", "other"} ->
               LET st1 == ContainerFunctionNodes(st, containerNode.kids, 1, id)
               IN  IF st1.err # NoError THEN st1
                   ELSE IF n = "size" /\ HasAttribute(containerNode, "templateParameter")
                   THEN IF badTemplateArg THEN [st1 EXCEPT !.err = Thrown]
                        ELSE [st1 EXCEPT !.data.mContainers[id].size_templateArgNo =
                                            StrToInt(containerNode.attr["templateParameter"])]
                   ELSE IF n = "access" /\ HasAttribute(containerNode, "indexOperator")
                   THEN [st1 EXCEPT !.data.mContainers[id].arrayLike_indexOp =
                                       (containerNode.attr["indexOperator"] = <<"array-like">>)]
                   ELSE st1
          [] n = "type" ->
               IF badTemplateArg THEN [st EXCEPT !.err = Thrown]
               ELSE [st EXCEPT
                       !.data.mContainers[id].type_templateArgNo =
                           IF HasAttribute(containerNode, "templateParameter")
                           THEN StrToInt(containerNode.attr["templateParameter"]) ELSE @,
                       !.data.mContainers[id].stdStringLike =
                           IF HasAttribute(containerNode, "string")
                           THEN containerNode.attr["string"] = <<"std-like">> ELSE @,
                       !.data.mContainers[id].stdAssociativeLike =
                           IF HasAttribute(containerNode, "associative")
                           THEN containerNode.attr["associative"] = <<"std-like">> ELSE @,
                       !.data.mContainers[id].unstableErase =
                           IF HasAttribute(containerNode, "unstable")
                              /\ \E k \in 1..Len(containerNode.attr["unstable"]) :
                                     containerNode.attr["unstable"][k] = "erase"
                           THEN TRUE ELSE @,
                       !.data.mContainers[id].unstableInsert =
                           IF HasAttribute(containerNode, "unstable")
                              /\ \E k \in 1..Len(containerNode.attr["unstable"]) :
                                     containerNode.attr["unstable"][k] = "insert"
                           THEN TRUE ELSE @]
          [] n = "rangeItemRecordType" ->
               IF RangeItemsThrow(node.kids) THEN [st EXCEPT !.err = Thrown]
               ELSE [st EXCEPT !.data.mContainers[id].rangeItemRecordType =
                                   @ \o RangeItems(node.kids, 1)]
          [] OTHER -> [st EXCEPT !.unknown = @ \cup {n}]

RECURSIVE ContainerNodes(_, _, _, _, _)
ContainerNodes(st, kids, i, node, id) ==
    IF i > Len(kids) \/ st.err # NoError THEN st
    ELSE ContainerNodes(ContainerNode(st, kids[i], node, id), kids, i + 1, node, id)

\* the attributes of a container element, laid over the descriptor c
ContainerAttributes(c, node) ==
    [c EXCEPT
        !.startPattern = IF HasAttribute(node, "startPattern") THEN node.attr["startPattern"] ELSE @,
        !.startPattern2 =
            IF HasAttribute(node, "startPattern")
            THEN LET sp == node.attr["startPattern"]
                 IN  IF sp # <<>> /\ sp[Len(sp)] = "<" THEN sp ELSE sp \o <<"!!::">>
            ELSE @,
        !.endPattern = IF HasAttribute(node, "endPattern") THEN node.attr["endPattern"] ELSE @,
        !.itEndPattern = IF HasAttribute(node, "itEndPattern") THEN node.attr["itEndPattern"] ELSE @,
        !.opLessAllowed = IF HasAttribute(node, "opLessAllowed")
                          THEN node.attr["opLessAllowed"] = <<"true">> ELSE @,
        !.hasInitializerListConstructor =
            IF HasAttribute(node, "hasInitializerListConstructor")
            THEN node.attr["hasInitializerListConstructor"] = <<"true">> ELSE @,
        !.view = IF HasAttribute(node, "view") THEN node.attr["view"] = <<"true">> ELSE @]

LoadContainer(st, node) ==
    IF ~HasAttribute(node, "id") THEN [st EXCEPT !.err = Error("MISSING_ATTRIBUTE", <<"id">>)]
    ELSE LET id == node.attr["id"]
             \* Container& container = mData->mContainers[id];
             st1 == [st EXCEPT !.data.mContainers = Put(@, id, At(@, id, Container))]
         IN  IF HasAttribute(node, "inherits") /\ node.attr["inherits"] \notin DOMAIN st1.data.mContainers
             THEN [st1 EXCEPT !.err = Error("BAD_ATTRIBUTE_VALUE", node.attr["inherits"])]
             ELSE LET base == IF HasAttribute(node, "inherits")
                              THEN st1.data.mContainers[node.attr["inherits"]]
                              ELSE st1.data.mContainers[id]
                      st2 == [st1 EXCEPT !.data.mContainers[id] = ContainerAttributes(base, node)]
                  IN  ContainerNodes(st2, node.kids, 1, node, id)

(***************************************************************************)
(* smart-pointer, type-checks, podtype, entrypoint                         *)
(***************************************************************************)
LoadSmartPointer(st, node) ==
    IF ~HasAttribute(node, "class-name")
    THEN [st EXCEPT !.err = Error("MISSING_ATTRIBUTE", <<"class-name">>)]
    ELSE LET className == node.attr["class-name"]
             old == At(st.data.mSmartPointers, className, [name |-> <<>>, unique |-> FALSE])
             unique == \E i \in 1..Len(node.kids) : node.kids[i].name = "unique"
         IN  [st EXCEPT !.data.mSmartPointers =
                 Put(@, className, [name |-> className, unique |-> old.unique \/ unique])]

\* the check, suppress and checkFiniteLifetime children of one child of type-checks
RECURSIVE TypeCheckNodes(_, _, _, _)
TypeCheckNodes(mTypeChecks, checkName, kids, i) ==
    IF i > Len(kids) THEN mTypeChecks
    ELSE LET t == kids[i]
         IN  IF t.text # NoText /\ t.name \in {"check", "suppress", "checkFiniteLifetime"}
             THEN TypeCheckNodes(Put(mTypeChecks, <<checkName, t.text>>, t.name), checkName, kids, i + 1)
             ELSE TypeCheckNodes(mTypeChecks, checkName, kids, i + 1)

RECURSIVE CheckNodes(_, _, _)
CheckNodes(mTypeChecks, kids, i) ==
    IF i > Len(kids) THEN mTypeChecks
    ELSE CheckNodes(TypeCheckNodes(mTypeChecks, kids[i].name, kids[i].kids, 1), kids, i + 1)

LoadTypeChecks(st, node) ==
    [st EXCEPT !.data.mTypeChecks = CheckNodes(@, node.kids, 1)]

LoadPodType(st, node) ==
    IF ~HasAttribute(node, "name") THEN [st EXCEPT !.err = Error("MISSING_ATTRIBUTE", <<"name">>)]
    ELSE IF HasAttribute(node, "size") /\ StrToIntThrows(node.attr["size"])
    THEN [st EXCEPT !.err = Thrown]
    ELSE LET stdtype == IF HasAttribute(node, "stdtype")
                           /\ node.attr["stdtype"] \in {<<"bool">>, <<"char">>, <<"short">>,
                                                          <<"int">>, <<"long">>, <<"long long">>}
                        THEN node.attr["stdtype"][1] ELSE "NO"
             podType == [stdtype |-> stdtype,
                         size |-> IF HasAttribute(node, "size") THEN StrToInt(node.attr["size"]) ELSE 0,
                         sign |-> IF HasAttribute(node, "sign") THEN node.attr["sign"] ELSE <<>>]
         IN  [st EXCEPT !.data.mPodTypes = PutAll(@, getnames(node.attr["name"]), 1, podType)]

LoadEntrypoint(st, node) ==
    IF ~HasAttribute(node, "name") THEN [st EXCEPT !.err = Error("MISSING_ATTRIBUTE", <<"name">>)]
    ELSE [st EXCEPT !.data.mEntrypoints = @ \cup {node.attr["name"]}]

(***************************************************************************)
(* platformtype                                                            *)
(***************************************************************************)
PlatformType ==
    [mType |-> <<>>, mSigned |-> FALSE, mUnsigned |-> FALSE, mLong |-> FALSE,
     mPointer |-> FALSE, mPtrPtr |-> FALSE, mConstPtr |-> FALSE]

NoPlatformType == [mType |-> <<"<nullptr>">>]

\* Library::platform_type(name, platform): the platform's own type, else the global one
platform_type(data, name, platform) ==
    IF platform \in DOMAIN data.mPlatforms /\ name \in DOMAIN data.mPlatforms[platform]
    THEN data.mPlatforms[platform][name]
    ELSE IF name \in DOMAIN data.mPlatformTypes THEN data.mPlatformTypes[name]
    ELSE NoPlatformType

\* one child of a platformtype element; w = [type, platform, unknown, err]
PlatformTypeNode(w, typenode) ==
    LET n == typenode.name
    IN  CASE n = "platform" ->
               IF ~HasAttribute(typenode, "type")
               THEN [w EXCEPT !.err = Error("MISSING_ATTRIBUTE", <<"type">>)]
               ELSE [w EXCEPT !.platform = @ \cup {NameOf(typenode.attr["type"])}]
          [] n = "signed" -> [w EXCEPT !.type.mSigned = TRUE]
          [] n = "unsigned" -> [w EXCEPT !.type.mUnsigned = TRUE]
          [] n = "long" -> [w EXCEPT !.type.mLong = TRUE]
          [] n = "pointer" -> [w EXCEPT !.type.mPointer = TRUE]
          [] n = "ptr_ptr" -> [w EXCEPT !.type.mPtrPtr = TRUE]
          [] n = "const_ptr" -> [w EXCEPT !.type.mConstPtr = TRUE]
          [] OTHER -> [w EXCEPT !.unknown = @ \cup {n}]

RECURSIVE PlatformTypeNodes(_, _, _)
PlatformTypeNodes(w, kids, i) ==
    IF i > Len(kids) \/ w.err # NoError THEN w
    ELSE PlatformTypeNodes(PlatformTypeNode(w, kids[i]), kids, i + 1)

\* the loop over the platforms of a platformtype element, in ascending order
RECURSIVE PlatformLoop(_, _, _, _, _)
PlatformLoop(st, platforms, i, type_name, type) ==
    IF i > Len(platforms) \/ st.err # NoError THEN st
    ELSE LET p == platforms[i]
             type_ptr == platform_type(st.data, type_name, p)
         IN  IF type_ptr # NoPlatformType
             THEN [st EXCEPT !.err = IF type_ptr = type
                                     THEN Error("DUPLICATE_PLATFORM_TYPE", type_name)
                                     ELSE Error("PLATFORM_TYPE_REDEFINED", type_name)]
             ELSE PlatformLoop(
                      [st EXCEPT !.data.mPlatforms =
                          Put(@, p, Put(At(@, p, EmptyMap), type_name, type))],
                      platforms, i + 1, type_name, type)

LoadPlatformType(st, node) ==
    IF ~HasAttribute(node, "name") THEN [st EXCEPT !.err = Error("MISSING_ATTRIBUTE", <<"name">>)]
    ELSE IF ~HasAttribute(node, "value") THEN [st EXCEPT !.err = Error("MISSING_ATTRIBUTE", <<"value">>)]
    ELSE LET type_name == node.attr["name"]
             w == PlatformTypeNodes([type |-> [PlatformType EXCEPT !.mType = node.attr["value"]],
                                     platform |-> {}, unknown |-> st.unknown, err |-> NoError],
                                    node.kids, 1)
             st1 == [st EXCEPT !.unknown = w.unknown, !.err = w.err]
         IN  IF w.err # NoError THEN st1
             ELSE IF w.platform = {}
             THEN LET type_ptr == platform_type(st.data, type_name, "")
                  IN  IF type_ptr # NoPlatformType
                      THEN [st1 EXCEPT !.err = IF type_ptr = w.type
                                               THEN Error("DUPLICATE_PLATFORM_TYPE", type_name)
                                               ELSE Error("PLATFORM_TYPE_REDEFINED", type_name)]
                      ELSE [st1 EXCEPT !.data.mPlatformTypes = Put(@, type_name, w.type)]
             ELSE PlatformLoop(st1, Ascending(w.platform), 1, type_name, w.type)

(***************************************************************************)
(* Library::load(const tinyxml2::XMLDocument&)                             *)
(***************************************************************************)
NoRoot == E("<no root>", NoAttr, NoText, <<>>)

\* one child of the root element
LoadNode(st, node) ==
    LET nodename == node.name
    IN  CASE nodename \in {"memory", "resource"} -> LoadMemory(st, node)
          [] nodename = "define" -> LoadDefine(st, node)
          [] nodename = "function" -> LoadFunctionElement(st, node)
          [] nodename = "reflection" -> LoadReflection(st, node)
          [] nodename = "markup" -> LoadMarkup(st, node)
          [] nodename = "container" -> LoadContainer(st, node)
          [] nodename = "smart-pointer" -> LoadSmartPointer(st, node)
          [] nodename = "type-checks" -> LoadTypeChecks(st, node)
          [] nodename = "podtype" -> LoadPodType(st, node)
          [] nodename = "platformtype" -> LoadPlatformType(st, node)
          [] nodename = "entrypoint" -> LoadEntrypoint(st, node)
          [] OTHER -> [st EXCEPT !.unknown = @ \cup {nodename}]

RECURSIVE LoadNodes(_, _, _)
LoadNodes(st, kids, i) ==
    IF i > Len(kids) \/ st.err # NoError THEN st
    ELSE LoadNodes(LoadNode(st, kids[i]), kids, i + 1)

\* a load that restores the tables it was given when an element aborts
loadTransactional(data, doc) ==
    IF doc = NoRoot THEN [data |-> data, err |-> Error("BAD_XML", <<>>)]
    ELSE IF doc.name # "def" THEN [data |-> data, err |-> Error("UNSUPPORTED_FORMAT", <<doc.name>>)]
    ELSE IF IntAttribute(doc, "format", 1) > 2 \/ IntAttribute(doc, "format", 1) <= 0
    THEN [data |-> data, err |-> Error("UNSUPPORTED_FORMAT", <<>>)]
    ELSE LET st == LoadNodes([data |-> data, unknown |-> {}, err |-> NoError], doc.kids, 1)
         IN  IF st.err # NoError THEN [data |-> data, err |-> st.err]
             ELSE IF st.unknown # {}
             THEN [data |-> st.data, err |-> Error("UNKNOWN_ELEMENT", Ascending(st.unknown))]
             ELSE [data |-> st.data, err |-> OK]

\* the result of load(doc) on the tables `data`: [data, err]
load(data, doc) ==
    IF doc = NoRoot THEN [data |-> data, err |-> Error("BAD_XML", <<>>)]
    ELSE IF doc.name # "def" THEN [data |-> data, err |-> Error("UNSUPPORTED_FORMAT", <<doc.name>>)]
    ELSE IF IntAttribute(doc, "format", 1) > 2 \/ IntAttribute(doc, "format", 1) <= 0
    THEN [data |-> data, err |-> Error("UNSUPPORTED_FORMAT", <<>>)]
    ELSE LET st == LoadNodes([data |-> data, unknown |-> {}, err |-> NoError], doc.kids, 1)
         IN  IF st.err # NoError THEN [data |-> st.data, err |-> st.err]
             ELSE IF st.unknown # {}
             THEN [data |-> st.data, err |-> Error("UNKNOWN_ELEMENT", Ascending(st.unknown))]
             ELSE [data |-> st.data, err |-> OK]

(***************************************************************************)
(* Library::load(exename, path, debug)                                     *)
(*                                                                         *)
(* A path is [abs, dir, file]: dir is the directory of an absolute path    *)
(* ("." for a relative one) and file the file name.  The file system maps  *)
(* <<dir, file>> to [status, doc].                                         *)
(***************************************************************************)
Dirs == {"cwd", "exe", "exe/cfg", "files/cfg"}

\* Path::getFilenameExtension(file).empty()
HasNoExtension(file) == file \in {"a", "b"}

\* fullfilename += ".cfg"
WithCfg(file) == IF file = "a" THEN "a.cfg" ELSE IF file = "b" THEN "b.cfg" ELSE file

HasComma(file) == file \in {"a,b"}

\* xml_LoadFile
xml_LoadFile(files, dir, file) ==
    IF <<dir, file>> \in DOMAIN files THEN files[<<dir, file>>]
    ELSE [status |-> "XML_ERROR_FILE_NOT_FOUND", doc |-> NoRoot]

\* the folders probed for a relative path, in the order they are taken from the list's back
cfgfolders(hasFilesDir, exename) ==
    (IF exename THEN <<"exe", "exe/cfg">> ELSE <<>>)
        \o (IF hasFilesDir THEN <<"files/cfg">> ELSE <<>>)

\* while (error == XML_ERROR_FILE_NOT_FOUND && !cfgfolders.empty())
RECURSIVE ProbeFolders(_, _, _, _)
ProbeFolders(files, folders, i, fullfilename) ==
    IF i > Len(folders)
    THEN [status |-> "XML_ERROR_FILE_NOT_FOUND", doc |-> NoRoot, absolute_path |-> <<>>]
    ELSE LET r == xml_LoadFile(files, folders[i], fullfilename)
         IN  IF r.status # "XML_ERROR_FILE_NOT_FOUND"
             THEN [status |-> r.status, doc |-> r.doc, absolute_path |-> <<folders[i], fullfilename>>]
             ELSE ProbeFolders(files, folders, i + 1, fullfilename)

\* the document found for a path: [status, doc, absolute_path]
OpenLibrary(fsys, exename, path) ==
    LET is_abs_path == path.abs
        fullfilename == IF ~is_abs_path /\ HasNoExtension(path.file) THEN WithCfg(path.file)
                        ELSE path.file
        dir == IF is_abs_path THEN path.dir ELSE "cwd"
        first == xml_LoadFile(fsys.files, dir, fullfilename)
    IN  IF first.status = "XML_ERROR_FILE_NOT_FOUND"
        THEN IF ~is_abs_path
             THEN ProbeFolders(fsys.files, cfgfolders(fsys.hasFilesDir, exename), 1, fullfilename)
             ELSE [status |-> first.status, doc |-> first.doc, absolute_path |-> <<>>]
        ELSE [status |-> first.status, doc |-> first.doc, absolute_path |-> <<dir, fullfilename>>]

\* the outcome of load(doc) with the path recorded also when unknown elements were reported
FileLoadedUnlessAborted(r, absolute_path) ==
    [data |-> IF r.err.errorcode \in {"OK", "UNKNOWN_ELEMENT"}
              THEN [r.data EXCEPT !.mFiles = @ \cup {absolute_path}] ELSE r.data,
     err |-> r.err,
     absolute_path |-> absolute_path]

\* the outcome of load(doc) for the file opened at absolute_path
FileLoaded(r, absolute_path) ==
    [data |-> IF r.err = OK THEN [r.data EXCEPT !.mFiles = @ \cup {absolute_path}] ELSE r.data,
     err |-> r.err,
     absolute_path |-> absolute_path]

\* what load(exename, path) does with the file f it opened, without the lookup in mFiles
LoadOpenedAgain(data, f) ==
    IF f.status = "XML_SUCCESS"
    THEN FileLoaded(load(data, f.doc), f.absolute_path)
    ELSE IF f.status = "XML_ERROR_FILE_NOT_FOUND"
    THEN [data |-> data, err |-> Error("FILE_NOT_FOUND", <<>>), absolute_path |-> f.absolute_path]
    ELSE [data |-> data, err |-> Error("BAD_XML", <<>>), absolute_path |-> f.absolute_path]

\* what load(exename, path) does with the file f it opened
LoadOpened(data, f) ==
    IF f.status = "XML_SUCCESS"
    THEN IF f.absolute_path \notin data.mFiles
         THEN FileLoaded(load(data, f.doc), f.absolute_path)
         ELSE [data |-> data, err |-> OK, absolute_path |-> f.absolute_path]
    ELSE IF f.status = "XML_ERROR_FILE_NOT_FOUND"
    THEN [data |-> data, err |-> Error("FILE_NOT_FOUND", <<>>), absolute_path |-> f.absolute_path]
    ELSE [data |-> data, err |-> Error("BAD_XML", <<>>), absolute_path |-> f.absolute_path]

\* the result of load(exename, path) on the tables `data`: [data, err, absolute_path]
loadPath(data, fsys, exename, path) ==
    IF HasComma(path.file) THEN [data |-> data, err |-> Thrown, absolute_path |-> <<>>]
    ELSE LoadOpened(data, OpenLibrary(fsys, exename, path))

(***************************************************************************)
(* Queries.  A call token is [funcname, callargs, excluded]: funcname is   *)
(* what getFunctionName derives for it, callargs the number of arguments   *)
(* of the call, excluded whether the token is a keyword, a standard type,  *)
(* a variable or a function of a non-global scope.                         *)
(***************************************************************************)
Max(a, b) == IF a >= b THEN a ELSE b

\* the loop of matchArguments over argumentChecks, a std::map: ascending positions
RECURSIVE MatchLoop(_, _, _, _, _)
MatchLoop(argumentChecks, keys, args, firstOptionalArg, callargs) ==
    IF keys = {}
    THEN IF firstOptionalArg < 0 THEN args = callargs
         ELSE callargs >= firstOptionalArg - 1 /\ callargs <= args
    ELSE LET k == CHOOSE x \in keys : \A y \in keys : x <= y
             args1 == Max(k, args)
             first1 == IF argumentChecks[k].optional
                          /\ (firstOptionalArg = -1 \/ firstOptionalArg > k)
                       THEN k ELSE firstOptionalArg
         IN  IF argumentChecks[k].formatstr \/ argumentChecks[k].variadic
             THEN args1 <= callargs
             ELSE MatchLoop(argumentChecks, keys \ {k}, args1, first1, callargs)

\* matchArguments with firstOptionalArg starting at 0 instead of -1
matchArgumentsFromZero(data, callargs, functionName) ==
    IF functionName = "" THEN FALSE
    ELSE IF functionName \notin DOMAIN data.mFunctions THEN FALSE
    ELSE LET argumentChecks == data.mFunctions[functionName].argumentChecks
         IN  MatchLoop(argumentChecks, DOMAIN argumentChecks, 0, 0, callargs)

matchArguments(data, callargs, functionName) ==
    IF functionName = "" THEN FALSE
    ELSE IF functionName \notin DOMAIN data.mFunctions THEN FALSE
    ELSE LET argumentChecks == data.mFunctions[functionName].argumentChecks
         IN  MatchLoop(argumentChecks, DOMAIN argumentChecks, 0, -1, callargs)

isNotLibraryFunction(data, ftok) ==
    ftok.excluded \/ ~matchArguments(data, ftok.callargs, ftok.funcname)

NoAllocFunc == [groupId |-> 0, arg |-> 0, null |-> TRUE]

getAllocDealloc(map, name) == IF name \in DOMAIN map THEN map[name] ELSE NoAllocFunc

getAllocFuncInfo(data, tok) ==
    IF isNotLibraryFunction(data, tok) /\ tok.funcname \in DOMAIN data.mFunctions
    THEN NoAllocFunc
    ELSE getAllocDealloc(data.mAlloc, tok.funcname)

getDeallocFuncInfo(data, tok) ==
    IF isNotLibraryFunction(data, tok) /\ tok.funcname \in DOMAIN data.mFunctions
    THEN NoAllocFunc
    ELSE getAllocDealloc(data.mDealloc, tok.funcname)

getReallocFuncInfo(data, tok) ==
    IF isNotLibraryFunction(data, tok) /\ tok.funcname \in DOMAIN data.mFunctions
    THEN NoAllocFunc
    ELSE getAllocDealloc(data.mRealloc, tok.funcname)

\* getAllocId without the test of the argument position
getAllocIdAnyPosition(data, tok, arg) ==
    LET af == getAllocFuncInfo(data, tok)
    IN  IF af # NoAllocFunc THEN af.groupId ELSE 0

getAllocId(data, tok, arg) ==
    LET af == getAllocFuncInfo(data, tok)
    IN  IF af # NoAllocFunc /\ af.arg = arg THEN af.groupId ELSE 0

getDeallocId(data, tok, arg) ==
    LET af == getDeallocFuncInfo(data, tok)
    IN  IF af # NoAllocFunc /\ af.arg = arg THEN af.groupId ELSE 0

getReallocId(data, tok, arg) ==
    LET af == getReallocFuncInfo(data, tok)
    IN  IF af # NoAllocFunc /\ af.arg = arg THEN af.groupId ELSE 0

(***************************************************************************)
(* Tokens of a validity expression.  A token is the sequence of its        *)
(* characters; numbers are counted in halves, so that 1.5 is the number 3. *)
(***************************************************************************)
\* a preprocessing number goes on through digits, '.', exponent letters and a sign after one
InNumber(cur, c) ==
    \/ isdigit(c) \/ c \in {".", "e", "E"}
    \/ c \in {"+", "-"} /\ cur[Len(cur)] \in {"e", "E"}

\* TokenList::createTokens: cur is the number being read, out the tokens read so far
RECURSIVE createTokens(_, _, _, _)
createTokens(s, i, cur, out) ==
    IF i > Len(s) THEN (IF cur = <<>> THEN out ELSE Append(out, cur))
    ELSE IF cur # <<>> /\ InNumber(cur, s[i]) THEN createTokens(s, i + 1, Append(cur, s[i]), out)
    ELSE IF cur # <<>> THEN createTokens(s, i, <<>>, Append(out, cur))
    ELSE IF isdigit(s[i]) \/ (s[i] = "." /\ isdigit(CharAt(s, i + 1)))
    THEN createTokens(s, i + 1, <<s[i]>>, out)
    ELSE createTokens(s, i + 1, <<>>, Append(out, <<s[i]>>))

\* Token::isNumber
isNumber(tok) ==
    /\ tok # <<>>
    /\ isdigit(tok[1]) \/ (Len(tok) > 1 /\ tok[1] = "-" /\ isdigit(tok[2]))

\* the token at place i of the list, the empty token behind its end
TokAt(toks, i) == IF i >= 1 /\ i <= Len(toks) THEN toks[i] ELSE <<>>

\* if (Token::Match(tok,"- %num%")) { tok->str("-" + tok->strAt(1)); tok->deleteNext(); }
RECURSIVE MergeMinus(_, _)
MergeMinus(toks, i) ==
    IF i > Len(toks) THEN toks
    ELSE IF toks[i] = <<"-">> /\ isNumber(TokAt(toks, i + 1))
    THEN MergeMinus(SubSeq(toks, 1, i - 1) \o << <<"-">> \o toks[i + 1] >>
                        \o SubSeq(toks, i + 2, Len(toks)), i + 1)
    ELSE MergeMinus(toks, i + 1)

gettokenlistfromvalid(valid) == MergeMinus(createTokens(valid \o <<",">>, 1, <<>>, <<>>), 1)

DigitValue ==
    [c \in {"0", "1", "2", "3", "4", "5", "6", "7", "8", "9"} |->
        CASE c = "0" -> 0 [] c = "1" -> 1 [] c = "2" -> 2 [] c = "3" -> 3 [] c = "4" -> 4
          [] c = "5" -> 5 [] c = "6" -> 6 [] c = "7" -> 7 [] c = "8" -> 8 [] c = "9" -> 9]

\* the decimal digits ds read as a number
RECURSIVE Decimal(_)
Decimal(ds) ==
    IF ds = <<>> THEN 0
    ELSE 10 * Decimal(SubSeq(ds, 1, Len(ds) - 1)) + DigitValue[ds[Len(ds)]]

\* MathLib::toBigNumber / MathLib::toDoubleNumber of [-]digits[.0|.5], in halves
toNumber(tok) ==
    LET body == IF tok[1] = "-" THEN Tail(tok) ELSE tok
        dot == IF \E k \in 1..Len(body) : body[k] = "."
               THEN CHOOSE k \in 1..Len(body) : body[k] = "." ELSE Len(body) + 1
        whole == Decimal(SubSeq(body, 1, dot - 1))
        half == IF CharAt(body, dot + 1) = "5" THEN 1 ELSE 0
        halves == 2 * whole + half
    IN  IF tok[1] = "-" THEN 0 - halves ELSE halves

\* MathLib::isFloat: a decimal point or an exponent
isFloat(tok) == \E k \in 1..Len(tok) : tok[k] \in {".", "e", "E"}

\* getarg returning nullptr
NoArgumentChecks == [null |-> TRUE]

getarg(data, ftok, argnr) ==
    IF isNotLibraryFunction(data, ftok) THEN NoArgumentChecks
    ELSE LET argumentChecks == data.mFunctions[ftok.funcname].argumentChecks
         IN  IF argnr \in DOMAIN argumentChecks THEN argumentChecks[argnr]
             ELSE IF -1 \in DOMAIN argumentChecks THEN argumentChecks[-1]
             ELSE NoArgumentChecks

\* for (const Token *tok = tokenList.front(); tok; tok = tok->next()) of isFloatArgValid
RECURSIVE FloatLoop(_, _, _)
FloatLoop(toks, i, argvalue) ==
    IF i > Len(toks) THEN FALSE
    ELSE LET tok == toks[i]
             n1 == TokAt(toks, i + 1)
             n2 == TokAt(toks, i + 2)
         IN  IF isNumber(tok) /\ n1 = <<":">> /\ isNumber(n2)
                    /\ argvalue >= toNumber(tok) /\ argvalue <= toNumber(n2) THEN TRUE
             ELSE IF isNumber(tok) /\ n1 = <<":">> /\ n2 = <<",">>
                    /\ argvalue >= toNumber(tok) THEN TRUE
             ELSE IF (i = 1 \/ toks[i - 1] = <<",">>) /\ tok = <<":">> /\ isNumber(n1)
                    /\ argvalue <= toNumber(n1) THEN TRUE
             ELSE IF isNumber(tok) /\ isFloat(tok) /\ toNumber(tok) = argvalue THEN TRUE
             ELSE IF tok = <<"!">> /\ isNumber(n1) /\ isFloat(n1)
             THEN toNumber(n1) # argvalue
             ELSE FloatLoop(toks, i + 1, argvalue)

\* argvalue in halves
isFloatArgValid(data, ftok, argnr, argvalue) ==
    LET ac == getarg(data, ftok, argnr)
    IN  IF ac = NoArgumentChecks THEN TRUE
        ELSE IF ac.valid = <<>> THEN TRUE
        ELSE FloatLoop(gettokenlistfromvalid(ac.valid), 1, argvalue)

\* for (const Token *tok = tokenList.front(); tok; tok = tok->next()) of isIntArgValid
RECURSIVE IntLoop(_, _, _)
IntLoop(toks, i, argvalue) ==
    IF i > Len(toks) THEN FALSE
    ELSE LET tok == toks[i]
             n1 == TokAt(toks, i + 1)
             n2 == TokAt(toks, i + 2)
         IN  IF isNumber(tok) /\ argvalue = toNumber(tok) THEN TRUE
             ELSE IF isNumber(tok) /\ n1 = <<":">> /\ isNumber(n2)
                    /\ argvalue >= toNumber(tok) /\ argvalue <= toNumber(n2) THEN TRUE
             ELSE IF isNumber(tok) /\ n1 = <<":">> /\ n2 = <<",">>
                    /\ argvalue >= toNumber(tok) THEN TRUE
             ELSE IF (i = 1 \/ toks[i - 1] = <<",">>) /\ tok = <<":">> /\ isNumber(n1)
                    /\ argvalue <= toNumber(n1) THEN TRUE
             ELSE IntLoop(toks, i + 1, argvalue)

\* argvalue in halves: the integer n is passed as 2 * n
isIntArgValid(data, ftok, argnr, argvalue) ==
    LET ac == getarg(data, ftok, argnr)
    IN  IF ac = NoArgumentChecks THEN TRUE
        ELSE IF ac.valid = <<>> THEN TRUE
        ELSE IF \E k \in 1..Len(ac.valid) : ac.valid[k] = "."
        THEN isFloatArgValid(data, ftok, argnr, argvalue)
        ELSE IntLoop(gettokenlistfromvalid(ac.valid), 1, argvalue)

(***************************************************************************)
(* Container detection.  A type is the sequence of its tokens; a pattern   *)
(* is the sequence of its words.                                           *)
(***************************************************************************)
\* Token::Match from the token at place i: a word stands for itself, !!:: for a token that
\* is not :: (or for the end of the list), and the empty pattern matches
Match(toks, i, pattern) ==
    /\ pattern # <<>> => i >= 1 /\ i <= Len(toks)
    /\ \A k \in 1..Len(pattern) :
          IF pattern[k] = "!!::" THEN TokAt(toks, i + k - 1) # <<"::">>
          ELSE TokAt(toks, i + k - 1) = <<pattern[k]>>

\* the '>' that closes a '<', 0 when there is none: j is the place read, depth the number
\* of '<' open in between
RECURSIVE CloseOf(_, _, _)
CloseOf(toks, j, depth) ==
    IF j > Len(toks) THEN 0
    ELSE IF toks[j] = <<"<">> THEN CloseOf(toks, j + 1, depth + 1)
    ELSE IF toks[j] = <<">">> THEN (IF depth = 0 THEN j ELSE CloseOf(toks, j + 1, depth - 1))
    ELSE CloseOf(toks, j + 1, depth)

\* Token::link
link(toks, i) == IF toks[i] = <<"<">> THEN CloseOf(toks, i + 1, 0) ELSE 0

\* Token::varId: the tokens that name a variable
varId(tok) == tok = <<"x">>

\* the first token with a link before the first variable, 0 when there is none
firstLinkedTok(toks) ==
    LET linked == {i \in 1..Len(toks) : link(toks, i) # 0 /\ \A j \in 1..i : ~varId(toks[j])}
    IN  IF linked = {} THEN 0 ELSE CHOOSE i \in linked : \A j \in linked : i <= j

\* container.startPattern2.c_str() + offset
StartPattern(container, withoutStd) ==
    LET sp == container.startPattern2
    IN  IF withoutStd /\ Len(sp) >= 3 /\ sp[1] = "std" /\ sp[2] = "::"
        THEN SubSeq(sp, 3, Len(sp)) ELSE sp

NoContainer == [null |-> TRUE]

\* one turn of the loop that tests both end patterns whatever the caller asked for
DetectOneAnyMode(data, id, typeStart, detect, withoutStd) ==
    LET container == data.mContainers[id]
        first == firstLinkedTok(typeStart)
        start == Match(typeStart, 1, StartPattern(container, withoutStd))
    IN  IF container.startPattern = <<>> THEN NoContainer
        ELSE IF container.endPattern = <<>>
        THEN (IF start THEN [container |-> id, isIterator |-> FALSE] ELSE NoContainer)
        ELSE IF first = 0 THEN NoContainer
        ELSE IF ~start THEN NoContainer
        ELSE IF Match(typeStart, link(typeStart, first), container.itEndPattern)
        THEN [container |-> id, isIterator |-> TRUE]
        ELSE IF Match(typeStart, link(typeStart, first), container.endPattern)
        THEN [container |-> id, isIterator |-> FALSE]
        ELSE NoContainer

\* one turn of the loop over mContainers: what the container `id` makes the function return
DetectOne(data, id, typeStart, detect, withoutStd) ==
    LET container == data.mContainers[id]
        first == firstLinkedTok(typeStart)
        start == Match(typeStart, 1, StartPattern(container, withoutStd))
    IN  IF container.startPattern = <<>> THEN NoContainer
        ELSE IF detect # "IteratorOnly" /\ container.endPattern = <<>>
        THEN (IF start THEN [container |-> id, isIterator |-> FALSE] ELSE NoContainer)
        ELSE IF first = 0 THEN NoContainer
        ELSE IF ~start THEN NoContainer
        ELSE IF detect # "ContainerOnly"
                 /\ Match(typeStart, link(typeStart, first), container.itEndPattern)
        THEN [container |-> id, isIterator |-> TRUE]
        ELSE IF detect # "IteratorOnly"
                 /\ Match(typeStart, link(typeStart, first), container.endPattern)
        THEN [container |-> id, isIterator |-> FALSE]
        ELSE NoContainer

\* the loop runs over an unordered map: the results the orders of the map can give
detectContainerInternal(data, typeStart, detect, withoutStd) ==
    LET found == {DetectOne(data, id, typeStart, detect, withoutStd) :
                      id \in DOMAIN data.mContainers} \ {NoContainer}
    IN  IF typeStart = <<>> \/ found = {} THEN {NoContainer} ELSE found

detectContainer(data, typeStart) ==
    detectContainerInternal(data, typeStart, "ContainerOnly", FALSE)

detectIterator(data, typeStart) ==
    detectContainerInternal(data, typeStart, "IteratorOnly", FALSE)

detectContainerOrIterator(data, typeStart, withoutStd) ==
    detectContainerInternal(data, typeStart, "Both", withoutStd)

(***************************************************************************)
(* Queries on the arguments, the format strings and the noreturn state of  *)
(* a call.  A call token of these queries has one more field, noreturn:    *)
(* "function" when ftok->function() is declared noreturn, "variable" when  *)
(* ftok->variable() is, "" otherwise.                                      *)
(***************************************************************************)
isnullargbad(data, ftok, argnr) ==
    LET arg == getarg(data, ftok, argnr)
    IN  IF arg = NoArgumentChecks
           /\ ftok.funcname \in DOMAIN data.mFunctions
           /\ data.mFunctions[ftok.funcname].formatstr
           /\ data.mFunctions[ftok.funcname].formatstr_scan
        THEN TRUE
        ELSE IF arg = NoArgumentChecks THEN FALSE ELSE arg.notnull

isuninitargbad(data, ftok, argnr, indirect) ==
    LET arg == getarg(data, ftok, argnr)
    IN  IF arg = NoArgumentChecks
           /\ ftok.funcname \in DOMAIN data.mFunctions
           /\ data.mFunctions[ftok.funcname].formatstr
           /\ ~data.mFunctions[ftok.funcname].formatstr_scan
        THEN TRUE
        ELSE IF arg = NoArgumentChecks THEN FALSE ELSE arg.notuninit >= indirect

\* what a query gives: a value, or the exception it leaves with
Returned(v) == [thrown |-> FALSE, value |-> v]

OutOfRange == [thrown |-> TRUE, value |-> "std::out_of_range"]

formatstr_function(data, ftok) ==
    IF isNotLibraryFunction(data, ftok) THEN FALSE
    ELSE IF ftok.funcname \in DOMAIN data.mFunctions THEN data.mFunctions[ftok.funcname].formatstr
    ELSE FALSE

\* mFunctions.at(name) throws when the name has no entry
formatstr_argno(data, ftok) ==
    IF ftok.funcname \notin DOMAIN data.mFunctions THEN OutOfRange
    ELSE LET argumentChecksFunc == data.mFunctions[ftok.funcname].argumentChecks
             flagged == {k \in DOMAIN argumentChecksFunc : argumentChecksFunc[k].formatstr}
         IN  IF flagged = {} THEN Returned(-1)
             ELSE Returned((CHOOSE k \in flagged : \A j \in flagged : k <= j) - 1)

formatstr_scan(data, ftok) ==
    IF ftok.funcname \notin DOMAIN data.mFunctions THEN OutOfRange
    ELSE Returned(data.mFunctions[ftok.funcname].formatstr_scan)

formatstr_secure(data, ftok) ==
    IF ftok.funcname \notin DOMAIN data.mFunctions THEN OutOfRange
    ELSE Returned(data.mFunctions[ftok.funcname].formatstr_secure)

hasAnyTypeCheck(data, typeName) ==
    \E tc \in DOMAIN data.mTypeChecks : tc[2] = <<typeName>>

\* isnoreturn with Maybe read as "returns"
isnoreturnUnlessMaybe(data, ftok) ==
    IF ftok.noreturn = "function" THEN TRUE
    ELSE IF ftok.noreturn = "variable" THEN TRUE
    ELSE IF isNotLibraryFunction(data, ftok) THEN FALSE
    ELSE IF ftok.funcname \notin DOMAIN data.mNoReturn THEN FALSE
    ELSE data.mNoReturn[ftok.funcname] = "True"

isnoreturn(data, ftok) ==
    IF ftok.noreturn = "function" THEN TRUE
    ELSE IF ftok.noreturn = "variable" THEN TRUE
    ELSE IF isNotLibraryFunction(data, ftok) THEN FALSE
    ELSE IF ftok.funcname \notin DOMAIN data.mNoReturn THEN FALSE
    ELSE IF data.mNoReturn[ftok.funcname] = "Maybe" THEN TRUE
    ELSE data.mNoReturn[ftok.funcname] = "True"

isnotnoreturn(data, ftok) ==
    IF ftok.noreturn = "function" THEN FALSE
    ELSE IF isNotLibraryFunction(data, ftok) THEN hasAnyTypeCheck(data, ftok.funcname)
    ELSE IF ftok.funcname \notin DOMAIN data.mNoReturn THEN FALSE
    ELSE IF data.mNoReturn[ftok.funcname] = "Maybe" THEN FALSE
    ELSE data.mNoReturn[ftok.funcname] = "False"

(***************************************************************************)
(* Instances.  An instance owns its tables through the pointer mData; the  *)
(* objects pointed to live in a heap, a map from addresses to tables.      *)
(***************************************************************************)
Addresses == 1..3

\* new LibraryData(...): an address that is not in use
NewAddress(heap) == CHOOSE a \in Addresses \ DOMAIN heap : \A b \in Addresses \ DOMAIN heap : a <= b

\* the heap without the object at address a
Freed(heap, a) == [b \in DOMAIN heap \ {a} |-> heap[b]]

\* the tables of instance x
DataOf(l, x) == l.heap[l.mData[x]]

\* a copy that takes the pointer of the other instance instead of a new object
CopyShares(l, x, y) ==
    [l EXCEPT !.mData[x] = l.mData[y],
              !.heap = IF l.mData[x] = l.mData[y] THEN l.heap ELSE Freed(l.heap, l.mData[x])]

\* mData.reset(new LibraryData(*other.mData)) on instance x, other being instance y
CopyOf(l, x, y) ==
    LET a == NewAddress(l.heap)
    IN  [l EXCEPT !.mData[x] = a,
                  !.heap = Freed(Put(l.heap, a, l.heap[l.mData[y]]), l.mData[x])]

\* Library::operator=(const Library& other)
Assigned(l, x, y) == IF x = y THEN l ELSE CopyOf(l, x, y)

(***************************************************************************)
(* CheckOther::checkCharVariable on one binary operator token.  An operand *)
(* is [signedChar, values, known]: whether its type is signed char, the    *)
(* integer values value flow has for it, and whether they are known.       *)
(***************************************************************************)
NoValue == [null |-> TRUE]

\* Token::getValueLE(val): a value of the operand that is <= val
getValueLE(operand, val) ==
    IF \E v \in operand.values : v <= val
    THEN [intvalue |-> CHOOSE v \in operand.values : v <= val, known |-> operand.known]
    ELSE NoValue

\* Token::getValueGE(val): a value of the operand that is >= val
getValueGE(operand, val) ==
    IF \E v \in operand.values : v >= val
    THEN [intvalue |-> CHOOSE v \in operand.values : v >= val, known |-> operand.known]
    ELSE NoValue

\* Token::getMaxValue(false): the greatest value of the operand
getMaxValue(operand) ==
    IF operand.values = {} THEN NoValue
    ELSE [intvalue |-> CHOOSE v \in operand.values : \A w \in operand.values : w <= v,
          known |-> operand.known]

\* ValueType::Type, in the order of the enumeration
ValueTypeRank ==
    [BOOL |-> 1, CHAR |-> 2, SHORT |-> 3, WCHAR_T |-> 4, INT |-> 5, LONG |-> 6, LONGLONG |-> 7]

\* the warn flag of one side: operand is the signed-char side, other the other side
WarnFor(str, operand, other) ==
    LET le == getValueLE(operand, -1)
        v2 == getMaxValue(other)
        v1 == IF le = NoValue THEN getValueGE(operand, 128) ELSE le
    IN  v1 # NoValue
        /\ ~(str = "&" /\ v2 # NoValue /\ v2.known /\ v2.intvalue >= 0 /\ v2.intvalue < 256)

\* whether charBitOpError is reported for the operator token tok:
\* tok = [str, astOperand1, astOperand2, parent, lhs], lhs the type of the assigned target
checkCharVariable(warning, tok) ==
    LET warn == IF tok.astOperand1.signedChar
                THEN WarnFor(tok.str, tok.astOperand1, tok.astOperand2)
                ELSE IF tok.astOperand2.signedChar
                THEN WarnFor(tok.str, tok.astOperand2, tok.astOperand1)
                ELSE FALSE
    IN  /\ warning
        /\ tok.str \in {"&", "|", "^"}
        /\ warn
        /\ tok.parent = "="
        /\ tok.lhs # "none"
        /\ ValueTypeRank[tok.lhs] >= ValueTypeRank["SHORT"]

(***************************************************************************)
(* Bounds                                                                  *)
(***************************************************************************)
\* the number of load calls in one behaviour
MaxOps == 2

\* the length of the validity expressions that are tried
MaxExprLen == 3

\* the number of load calls by path in one behaviour
MaxPathLoads == 3

(***************************************************************************)
(* Inputs                                                                  *)
(***************************************************************************)
Def(kids) == E("def", NoAttr, NoText, kids)

\* an element without attributes, text and children
Leaf(name) == E(name, NoAttr, NoText, <<>>)

Calls(names, argcounts) ==
    [funcname : names, callargs : argcounts, excluded : BOOLEAN]

\* memory and resource blocks
AllocKids ==
    { E("alloc", [arg |-> <<"1">>], <<"A">>, <<>>),
      E("alloc", [arg |-> <<"1">>], <<"B">>, <<>>) }

DeallocKids ==
    { E("dealloc", NoAttr, <<"F">>, <<>>),
      E("dealloc", NoAttr, <<"G">>, <<>>),
      E("dealloc", NoAttr, <<"F", ",", "G">>, <<>>) }

PairBlocks ==
    { E(kind, NoAttr, NoText, <<a, d>>) : kind \in {"memory", "resource"},
                                          a \in AllocKids, d \in DeallocKids }

OtherBlocks ==
    { E("memory", NoAttr, NoText,
            << E("dealloc", [arg |-> <<"2">>], <<"F">>, <<>>),
               E("alloc", NoAttr, <<"A">>, <<>>),
               E("use", NoAttr, <<"A">>, <<>>) >>),
      E("resource", NoAttr, NoText,
            << E("realloc", [arg |-> <<"2">>], <<"B">>, <<>>),
               E("stray", NoAttr, <<"B">>, <<>>),
               E("dealloc", NoAttr, <<"G">>, <<>>) >>),
      E("memory", NoAttr, NoText,
            << E("alloc", [arg |-> <<"1">>], <<"B">>, <<>>),
               E("alloc", ("buffer-size" :> <<"mallox">>), <<"A">>, <<>>),
               E("dealloc", NoAttr, <<"G">>, <<>>) >>) }

AllocDocs ==
    { Def(<<b>>) : b \in PairBlocks \cup OtherBlocks }
        \cup { Def(<<b, c>>) : b \in PairBlocks, c \in PairBlocks }

AllocCalls == Calls({"A", "B", "F", "G", "H"}, {1})

ArgPositions == {1, 2}

NoFiles == [files |-> EmptyMap, hasFilesDir |-> FALSE]

(***************************************************************************)
(* Operations                                                              *)
(***************************************************************************)
Init ==
    /\ lib = LibraryData
    /\ pre = LibraryData
    /\ last = [op |-> "init", in |-> <<>>, out |-> <<>>]
    /\ okPaths = {}
    /\ fs = NoFiles
    /\ nOps = 0

\* the tables are built by load calls and are immutable once queries are issued; a query
\* leaves the instance as it is, so a behaviour ends with one query
Loading == last.op \in {"init", "load", "loadPath"}

\* a document of several elements is the last document of a behaviour: the documents
\* before it are loaded one element at a time
MoreDocuments == Loading /\ (last.op = "load" => Len(last.in.kids) <= 1)

\* Library::load(const tinyxml2::XMLDocument&) on the instance
LoadDocument(doc) ==
    /\ MoreDocuments
    /\ nOps < MaxOps
    /\ LET r == load(lib, doc)
       IN  /\ lib' = r.data
           /\ last' = [op |-> "load", in |-> doc, out |-> r.err]
    /\ pre' = lib
    /\ nOps' = nOps + 1
    /\ UNCHANGED <<okPaths, fs>>

\* the instance after load(exename, path) gave the result r
Loaded(r, exename, path) ==
    /\ lib' = r.data
    /\ last' = [op |-> "loadPath", in |-> [exename |-> exename, path |-> path],
                out |-> [err |-> r.err, absolute_path |-> r.absolute_path]]
    /\ okPaths' = IF r.err = OK THEN okPaths \cup {r.absolute_path} ELSE okPaths

\* Library::load(exename, path) on the instance
LoadPath(exename, path) ==
    /\ Loading
    /\ nOps < MaxPathLoads
    /\ Loaded(loadPath(lib, fs, exename, path), exename, path)
    /\ pre' = lib
    /\ nOps' = nOps + 1
    /\ UNCHANGED fs

GetAllocId(tok, arg) ==
    /\ Loading
    /\ last' = [op |-> "getAllocId", in |-> [tok |-> tok, arg |-> arg],
                out |-> getAllocId(lib, tok, arg)]
    /\ pre' = lib
    /\ UNCHANGED <<lib, okPaths, fs, nOps>>

GetDeallocId(tok, arg) ==
    /\ Loading
    /\ last' = [op |-> "getDeallocId", in |-> [tok |-> tok, arg |-> arg],
                out |-> getDeallocId(lib, tok, arg)]
    /\ pre' = lib
    /\ UNCHANGED <<lib, okPaths, fs, nOps>>

GetReallocId(tok, arg) ==
    /\ Loading
    /\ last' = [op |-> "getReallocId", in |-> [tok |-> tok, arg |-> arg],
                out |-> getReallocId(lib, tok, arg)]
    /\ pre' = lib
    /\ UNCHANGED <<lib, okPaths, fs, nOps>>

(***************************************************************************)
(* The allocation registry: blocks are loaded, ids are queried             *)
(***************************************************************************)
NextAlloc ==
    \/ \E doc \in AllocDocs : LoadDocument(doc)
    \/ \E tok \in AllocCalls, arg \in ArgPositions : GetAllocId(tok, arg)
    \/ \E tok \in AllocCalls, arg \in ArgPositions : GetDeallocId(tok, arg)
    \/ \E tok \in AllocCalls, arg \in ArgPositions : GetReallocId(tok, arg)

SpecAlloc == Init /\ [][NextAlloc]_vars

(***************************************************************************)
(* Vocabulary of the properties                                            *)
(***************************************************************************)
Range(seq) == {seq[i] : i \in 1..Len(seq)}

\* the document has the root and the format the loader supports
SupportedRoot(doc) ==
    doc.name = "def" /\ IntAttribute(doc, "format", 1) \in {1, 2}

\* the loop over the first i elements of the document just loaded, from the tables before it
After(i) ==
    LoadNodes([data |-> pre, unknown |-> {}, err |-> NoError], SubSeq(last.in.kids, 1, i), 1)

\* the names a child element of a block lists
NamesOf(kid) == Range(getnames(kid.text))

\* the names listed by the children of block b called tag whose arg attribute reads as pos
BlockNames(b, tag, default, pos) ==
    UNION {NamesOf(k) : k \in {x \in Range(b.kids) : x.name = tag /\ IntAttribute(x, "arg", default) = pos}}

DeallocNames(b) == UNION {NamesOf(k) : k \in {x \in Range(b.kids) : x.name = "dealloc"}}

IsBlock(b) == b.name \in {"memory", "resource"}

\* the last load processed its whole document
LoadedWhole == last.op = "load" /\ last.out.errorcode \in {"OK", "UNKNOWN_ELEMENT"}

LastBlock == last.in.kids[Len(last.in.kids)]

\* a call of `name` with n arguments that is not excluded from library lookup
Call(name, n) == [funcname |-> name, callargs |-> n, excluded |-> FALSE]

\* a call that can reach the allocation tables: a library call, or a name without descriptor
Reaches(data, tok) ==
    tok.funcname \in DOMAIN data.mFunctions
        => ~tok.excluded /\ matchArguments(data, tok.callargs, tok.funcname)

ReachingCalls(data, name) == {tok \in Calls({name}, {0, 1}) : Reaches(data, tok)}

(***************************************************************************)
(* C2: every id given to the names of a memory block passes ismemory and   *)
(* every id given to the names of a resource block passes isresource,      *)
(* whether the id was minted for the block or reused from a known dealloc  *)
(* name; and no alloc name of a memory block has the group id of an alloc  *)
(* name of a resource block.  Stated for the last block of the document    *)
(* just loaded, and for the two blocks of a document of two blocks of      *)
(* different kinds, the names that both blocks list left aside.            *)
(***************************************************************************)
KindTest(b, id) == IF b.name = "memory" THEN ismemory(id) ELSE isresource(id)

AllocNames(b) == UNION {NamesOf(k) : k \in {x \in Range(b.kids) : x.name = "alloc"}}

TwoKinds ==
    /\ LoadedWhole
    /\ Len(last.in.kids) = 2
    /\ IsBlock(last.in.kids[1]) /\ IsBlock(last.in.kids[2])
    /\ last.in.kids[1].name # last.in.kids[2].name

C2_IdsOfTheBlocksKind ==
    /\ (LoadedWhole /\ IsBlock(LastBlock)) =>
            \A k \in Range(LastBlock.kids) : \A n \in NamesOf(k) :
                /\ k.name = "alloc" => KindTest(LastBlock, lib.mAlloc[n].groupId)
                /\ k.name = "dealloc" => KindTest(LastBlock, lib.mDealloc[n].groupId)
                /\ k.name = "realloc" => KindTest(LastBlock, lib.mRealloc[n].groupId)
    /\ TwoKinds =>
            \A n \in AllocNames(last.in.kids[1]) \ AllocNames(last.in.kids[2]) :
                \A m \in AllocNames(last.in.kids[2]) :
                    lib.mAlloc[n].groupId # lib.mAlloc[m].groupId

(***************************************************************************)
(* C3: for the block just loaded, with alloc A (position 1) and dealloc B, *)
(* getAllocId(call(A), 1) = getDeallocId(call(B), 1) # 0; and this id      *)
(* differs from the id of the pair of another block.  As claimed: for any  *)
(* other block that shares no dealloc name with it.  As amended: when one  *)
(* of the two blocks got a freshly minted id, that is, none of its dealloc *)
(* names was a known dealloc function when it was loaded.                  *)
(***************************************************************************)
PairDoc ==
    /\ LoadedWhole
    /\ Len(last.in.kids) = 2
    /\ IsBlock(last.in.kids[1]) /\ IsBlock(last.in.kids[2])
    /\ DeallocNames(last.in.kids[1]) \cap DeallocNames(last.in.kids[2]) = {}

\* the ids of the pairs of the earlier block (by its dealloc names) and of the later block
IdsDiffer(b, c) ==
    \A B1 \in BlockNames(b, "dealloc", 1, 1), A2 \in BlockNames(c, "alloc", -1, 1) :
        \A t1 \in ReachingCalls(lib, B1), t2 \in ReachingCalls(lib, A2) :
            getDeallocId(lib, t1, 1) # getAllocId(lib, t2, 1)

Symmetric(c) ==
    \A A \in BlockNames(c, "alloc", -1, 1), B \in BlockNames(c, "dealloc", 1, 1) :
        \A ta \in ReachingCalls(lib, A), tb \in ReachingCalls(lib, B) :
            /\ getAllocId(lib, ta, 1) = getDeallocId(lib, tb, 1)
            /\ getAllocId(lib, ta, 1) # 0

FreshFirst == DeallocNames(last.in.kids[1]) \cap DOMAIN pre.mDealloc = {}

FreshSecond ==
    DeallocNames(last.in.kids[2])
        \cap (DOMAIN pre.mDealloc \cup DeallocNames(last.in.kids[1])) = {}

QueryTokens == Calls({"A", "B", "F", "G", "H"}, {0, 1})

QueryPositions == {-1, 1, 2}

Expected(table, tok, arg) ==
    IF tok.funcname \in DOMAIN table /\ Reaches(lib, tok) /\ table[tok.funcname].arg = arg
    THEN table[tok.funcname].groupId
    ELSE 0

ArgElement(nr, optional, flagged) ==
    E("arg",
      IF optional THEN [nr |-> <<nr>>, default |-> <<"0">>] ELSE [nr |-> <<nr>>],
      NoText,
      IF flagged THEN <<E("formatstr", NoAttr, NoText, <<>>)>> ELSE <<>>)

ArgChoices(nr) ==
    {<<>>, <<ArgElement(nr, FALSE, FALSE)>>, <<ArgElement(nr, TRUE, FALSE)>>,
     <<ArgElement(nr, FALSE, TRUE)>>}

AnyChoices ==
    {<<>>, <<ArgElement("any", TRUE, FALSE)>>, <<ArgElement("variadic", FALSE, FALSE)>>}

\* positions 1 and 2 in every combination, and some descriptors with a position 3
ArgLists ==
    { a1 \o a2 \o a0 : a1 \in ArgChoices("1"), a2 \in ArgChoices("2"), a0 \in AnyChoices }
        \cup { <<ArgElement("1", FALSE, FALSE), ArgElement("2", o2, FALSE),
                 ArgElement("3", o3, FALSE)>> : o2 \in BOOLEAN, o3 \in BOOLEAN }
        \cup { <<ArgElement("3", FALSE, FALSE)>> }

FunctionDocs == { Def(<<E("function", [name |-> <<"foo">>], NoText, args)>>) : args \in ArgLists }

ArgCounts == 0..4

ArgNames == {"foo", "bar", ""}

MatchArguments(callargs, functionName) ==
    /\ Loading
    /\ last' = [op |-> "matchArguments",
                in |-> [callargs |-> callargs, functionName |-> functionName],
                out |-> matchArguments(lib, callargs, functionName)]
    /\ pre' = lib
    /\ UNCHANGED <<lib, okPaths, fs, nOps>>

NextArgs ==
    \/ \E doc \in FunctionDocs : LoadDocument(doc)
    \/ \E callargs \in ArgCounts, functionName \in ArgNames :
          MatchArguments(callargs, functionName)

SpecArgs == Init /\ [][NextArgs]_vars

\* the argument positions a descriptor declares; the entry -1 ("any") is no position
Declared(acs) == {k \in DOMAIN acs : k >= 1}

Highest(acs) ==
    IF Declared(acs) = {} THEN 0
    ELSE CHOOSE k \in Declared(acs) : \A j \in Declared(acs) : j <= k

Flagged(acs) == \E k \in DOMAIN acs : acs[k].formatstr \/ acs[k].variadic

Optionals(acs) == {k \in Declared(acs) : acs[k].optional}

LowestOptional(acs) == CHOOSE k \in Optionals(acs) : \A j \in Optionals(acs) : k <= j

Checks(name) == lib.mFunctions[name].argumentChecks

(***************************************************************************)
(* C5: a descriptor with an entry flagged format-string or variadic        *)
(* accepts a call exactly when the call has at least as many arguments as  *)
(* the highest declared position, whichever entry carries the flag.        *)
(***************************************************************************)
C5_FlaggedAcceptsFromHighest ==
    \A name \in DOMAIN lib.mFunctions, n \in ArgCounts :
        (name # "" /\ Flagged(Checks(name))) =>
            (matchArguments(lib, n, name) <=> n >= Highest(Checks(name)))

(***************************************************************************)
(* C6: a descriptor without flagged entry accepts a call exactly when the  *)
(* count equals the highest declared position or, with an optional         *)
(* position, lies in [lowest optional position - 1, highest position]; a   *)
(* descriptor without entries accepts only 0 arguments; an unknown or      *)
(* empty name is never accepted.                                           *)
(***************************************************************************)
Accepts(name, n) ==
    /\ name # ""
    /\ name \in DOMAIN lib.mFunctions
    /\ IF Optionals(Checks(name)) = {}
       THEN n = Highest(Checks(name))
       ELSE n >= LowestOptional(Checks(name)) - 1 /\ n <= Highest(Checks(name))

Unflagged(name) == name \in DOMAIN lib.mFunctions => ~Flagged(Checks(name))

C6_UnflaggedArity ==
    /\ \A name \in ArgNames, n \in ArgCounts :
          Unflagged(name) => (matchArguments(lib, n, name) <=> Accepts(name, n))
    /\ \A n \in ArgCounts :
          ("foo" \in DOMAIN lib.mFunctions /\ DOMAIN Checks("foo") = {}) =>
              (matchArguments(lib, n, "foo") <=> n = 0)
    /\ (last.op = "matchArguments" /\ Unflagged(last.in.functionName)) =>
          last.out = Accepts(last.in.functionName, last.in.callargs)

C6_Witness ==
    /\ last.op = "matchArguments"
    /\ last.in.functionName = "foo"
    /\ "foo" \in DOMAIN lib.mFunctions
    /\ ~Flagged(Checks("foo"))
    /\ Optionals(Checks("foo")) # {}
    /\ -1 \in DOMAIN Checks("foo")
    /\ last.in.callargs < Highest(Checks("foo"))
    /\ last.out = TRUE
    /\ ~matchArguments(lib, 0, "foo")
    /\ ~matchArguments(lib, 1, "bar")

(***************************************************************************)
(* Argument values: functions with a validity expression for an argument   *)
(* are loaded and values are tested against them                           *)
(***************************************************************************)
CompliantTexts ==
    { <<"1", ":", "5">>,
      <<"0", ":", ",">>,
      <<":", "1", "0">>,
      <<"5", ":", "1">>,
      <<"-", "5", ":", "-", "1">>,
      <<"1", ",", "5">>,
      <<"1", ".", "5", ":", "5", ".", "5">>,
      <<"!", "1", ".", "5", ",", "1", ".", "0", ":", "5", ".", "0">>,
      <<"1", ".", "5">>,
      <<"1">> }

\* a valid element without text, and texts that are not compliant
OtherTexts == { NoText, <<"x">> }

ValidElement(text) == E("valid", NoAttr, text, <<>>)

ValidDoc(name, nr, kids) ==
    Def(<<E("function", [name |-> name], NoText, <<E("arg", [nr |-> <<nr>>], NoText, kids)>>)>>)

ValidDocs ==
    { ValidDoc(<<"foo">>, "1", <<ValidElement(t)>>) : t \in CompliantTexts \cup OtherTexts }
        \cup { ValidDoc(<<"foo">>, "1", <<Leaf("strz"), ValidElement(<<"x">>)>>),
               ValidDoc(<<"foo">>, "any", <<ValidElement(<<"0", ":">>)>>),
               ValidDoc(<<"foo">>, "2", <<E("valid", [indirect |-> <<"x">>], <<"x">>, <<>>)>>),
               ValidDoc(<<>>, "1", <<ValidElement(<<"x">>)>>),
               Def(<<E("define", [name |-> <<"Y">>], NoText, <<>>),
                     E("function", [name |-> <<"foo">>], NoText,
                       <<E("arg", [nr |-> <<"1">>], NoText, <<ValidElement(<<"x">>)>>)>>)>>) }

ValueCalls ==
    { [funcname |-> "foo", callargs |-> 1, excluded |-> FALSE],
      [funcname |-> "foo", callargs |-> 1, excluded |-> TRUE],
      [funcname |-> "foo", callargs |-> 2, excluded |-> FALSE],
      [funcname |-> "bar", callargs |-> 1, excluded |-> FALSE] }

ValuePositions == {1, 2}

\* the integers -6 .. 11, in halves
IntValues == {2 * n : n \in -6..11}

\* the numbers -1.0, -0.5, .. 6.0, in halves
FloatValues == -2..12

IsIntArgValid(ftok, argnr, argvalue) ==
    /\ last' = [op |-> "isIntArgValid",
                in |-> [tok |-> ftok, argnr |-> argnr, argvalue |-> argvalue],
                out |-> isIntArgValid(lib, ftok, argnr, argvalue)]
    /\ pre' = lib
    /\ UNCHANGED <<lib, okPaths, fs, nOps>>

IsFloatArgValid(ftok, argnr, argvalue) ==
    /\ last' = [op |-> "isFloatArgValid",
                in |-> [tok |-> ftok, argnr |-> argnr, argvalue |-> argvalue],
                out |-> isFloatArgValid(lib, ftok, argnr, argvalue)]
    /\ pre' = lib
    /\ UNCHANGED <<lib, okPaths, fs, nOps>>

NextValues ==
    \/ \E doc \in ValidDocs : LoadDocument(doc)
    \/ Loading /\ \E ftok \in ValueCalls, argnr \in ValuePositions, v \in IntValues :
                      IsIntArgValid(ftok, argnr, v)
    \/ Loading /\ \E ftok \in ValueCalls, argnr \in ValuePositions, v \in FloatValues :
                      IsFloatArgValid(ftok, argnr, v)

SpecValues == Init /\ [][NextValues]_vars

(***************************************************************************)
(* C13: every validity expression stored for an argument is empty or       *)
(* compliant, and a valid element whose text is missing or not compliant   *)
(* makes load return BadAttributeValue and leaves the expression stored    *)
(* for that argument as it was.  As claimed: for every document that holds *)
(* such an element.  As amended: when load reaches the element, that is,   *)
(* in a document of a supported root, in a function element with names     *)
(* that are not empty, with nothing before it that aborts the load.        *)
(***************************************************************************)
StoredCompliant(data) ==
    \A f \in DOMAIN data.mFunctions :
        \A nr \in DOMAIN data.mFunctions[f].argumentChecks :
            LET valid == data.mFunctions[f].argumentChecks[nr].valid
            IN  valid = <<>> \/ isCompliantValidationExpression(valid)

BadValid(e) == e.name = "valid" /\ ~isCompliantValidationExpression(e.text)

\* the places <<i, j, k>> of the valid elements of a document whose text is not compliant
BadValids(doc) ==
    { p \in (1..Len(doc.kids)) \X (1..2) \X (1..2) :
        /\ doc.kids[p[1]].name = "function"
        /\ p[2] <= Len(doc.kids[p[1]].kids)
        /\ doc.kids[p[1]].kids[p[2]].name = "arg"
        /\ p[3] <= Len(doc.kids[p[1]].kids[p[2]].kids)
        /\ BadValid(doc.kids[p[1]].kids[p[2]].kids[p[3]]) }

\* the argument number an arg element is stored under
NrOf(arg) == IF arg.attr["nr"] \in {<<"any">>, <<"variadic">>} THEN -1 ELSE StrToInt(arg.attr["nr"])

\* the expression stored for argument nr of function f, empty when there is none
ValidOf(data, f, nr) ==
    IF f \in DOMAIN data.mFunctions /\ nr \in DOMAIN data.mFunctions[f].argumentChecks
    THEN data.mFunctions[f].argumentChecks[nr].valid ELSE <<>>

\* children that are read without a verdict
Harmless(e) ==
    e.name \in {"pure", "const", "leak-ignore", "not-bool", "not-null", "strz", "formatstr"}
        /\ ~HasAttribute(e, "indirect")

\* load gets as far as the valid element at place p of the document just loaded
Reached(p) ==
    LET f == last.in.kids[p[1]]
        arg == f.kids[p[2]]
    IN  /\ SupportedRoot(last.in)
        /\ After(p[1] - 1).err = NoError
        /\ HasAttribute(f, "name") /\ "" \notin Range(getnames(f.attr["name"]))
        /\ \A j \in 1..(p[2] - 1) : Harmless(f.kids[j])
        /\ HasAttribute(arg, "nr")
        /\ arg.attr["nr"] \in {<<"any">>, <<"variadic">>} \/ IsIntText(arg.attr["nr"])
        /\ \A k \in 1..(p[3] - 1) : Harmless(arg.kids[k])
        /\ ~HasAttribute(arg.kids[p[3]], "indirect")

\* the load was refused for the valid element at place p and kept what was stored
Refused(p) ==
    LET f == last.in.kids[p[1]]
        arg == f.kids[p[2]]
    IN  /\ last.out.errorcode = "BAD_ATTRIBUTE_VALUE"
        /\ HasAttribute(f, "name") /\ HasAttribute(arg, "nr")
        /\ \A n \in Range(getnames(f.attr["name"])) :
              ValidOf(lib, n, NrOf(arg)) = ValidOf(pre, n, NrOf(arg))

RECURSIVE Segments(_)
Segments(s) ==
    IF \E k \in 1..Len(s) : s[k] = ","
    THEN LET k == CHOOSE i \in 1..Len(s) : s[i] = "," /\ \A j \in 1..(i - 1) : s[j] # ","
         IN  {SubSeq(s, 1, k - 1)} \cup Segments(SubSeq(s, k + 1, Len(s)))
    ELSE {s}

IsIntLiteral(t) ==
    LET ds == IF t # <<>> /\ t[1] = "-" THEN Tail(t) ELSE t
    IN  ds # <<>> /\ \A k \in 1..Len(ds) : isdigit(ds[k])

\* the bounds of a segment: the texts before and after its ':'
Lo(seg) == SubSeq(seg, 1, (CHOOSE k \in 1..Len(seg) : seg[k] = ":") - 1)

Hi(seg) == SubSeq(seg, (CHOOSE k \in 1..Len(seg) : seg[k] = ":") + 1, Len(seg))

IsRange(seg) == \E k \in 1..Len(seg) : seg[k] = ":"

IsIntSegment(seg) ==
    \/ seg = <<>>
    \/ IsIntLiteral(seg)
    \/ /\ IsRange(seg)
       /\ Lo(seg) = <<>> \/ IsIntLiteral(Lo(seg))
       /\ Hi(seg) = <<>> \/ IsIntLiteral(Hi(seg))
       /\ Lo(seg) # <<>> \/ Hi(seg) # <<>>

\* the value v, in halves, is one the segment allows
Admits(seg, v) ==
    IF seg = <<>> THEN FALSE
    ELSE IF ~IsRange(seg) THEN v = toNumber(seg)
    ELSE /\ Lo(seg) # <<>> => v >= toNumber(Lo(seg))
         /\ Hi(seg) # <<>> => v <= toNumber(Hi(seg))

\* the expression the last query was answered from, empty when there is none
Asked ==
    LET ac == getarg(lib, last.in.tok, last.in.argnr)
    IN  IF ac = NoArgumentChecks THEN <<>> ELSE ac.valid

C14_IntSegments ==
    last.op = "isIntArgValid" =>
        /\ Asked = <<>> => last.out = TRUE
        /\ (Asked # <<>> /\ \A seg \in Segments(Asked) : IsIntSegment(seg)) =>
                (last.out = \E seg \in Segments(Asked) : Admits(seg, last.in.argvalue))

(***************************************************************************)
(* C15: isFloatArgValid is true exactly when some segment of the stored    *)
(* expression allows the value, the segments being tested in order until   *)
(* one allows it: a literal allows the value equal to it, lo:hi the values *)
(* from lo to hi, lo: and :hi the values from lo on and up to hi, and      *)
(* !literal the values different from the literal.                         *)
(***************************************************************************)
\* [-]digits or [-]digits.digits
IsLiteral(t) ==
    \/ IsIntLiteral(t)
    \/ \E k \in 1..Len(t) :
          t[k] = "." /\ IsIntLiteral(SubSeq(t, 1, k - 1))
                     /\ k < Len(t) /\ \A j \in (k + 1)..Len(t) : isdigit(t[j])

IsFloatSegment(seg) ==
    \/ seg = <<>>
    \/ IsLiteral(seg)
    \/ seg[1] = "!" /\ IsLiteral(Tail(seg))
    \/ /\ IsRange(seg)
       /\ Lo(seg) = <<>> \/ IsLiteral(Lo(seg))
       /\ Hi(seg) = <<>> \/ IsLiteral(Hi(seg))
       /\ Lo(seg) # <<>> \/ Hi(seg) # <<>>

AdmitsFloat(seg, v) ==
    IF seg # <<>> /\ seg[1] = "!" THEN v # toNumber(Tail(seg)) ELSE Admits(seg, v)

C15_FloatSegments ==
    (last.op = "isFloatArgValid" /\ Asked # <<>>
        /\ \A seg \in Segments(Asked) : IsFloatSegment(seg)) =>
            (last.out = \E seg \in Segments(Asked) : AdmitsFloat(seg, last.in.argvalue))

(***************************************************************************)
(* Containers: container elements are loaded, with and without a parent,   *)
(* and types are looked up                                                 *)
(***************************************************************************)
VectorLike ==
    E("container", [id |-> <<"V">>, startPattern |-> <<"std", "::", "V", "<">>,
                    endPattern |-> <<">", "!!::">>, itEndPattern |-> <<">", "::", "iterator">>],
      NoText,
      <<E("type", [templateParameter |-> <<"0">>, unstable |-> <<"erase">>], NoText, <<>>),
        E("access", NoAttr, NoText,
          <<E("function", [name |-> <<"at">>, yields |-> <<"at_index">>,
                           returnType |-> <<"T">>], NoText, <<>>)>>),
        Leaf("rangeItemRecordType")>>)

ContainerElements ==
    { VectorLike,
      \* no end pattern: the start pattern alone decides
      E("container", [id |-> <<"S">>, startPattern |-> <<"S">>], NoText, <<>>),
      \* no end pattern, and an iterator-end pattern
      E("container", [id |-> <<"W">>, startPattern |-> <<"W", "<">>,
                      itEndPattern |-> <<">", "::", "iterator">>], NoText, <<>>),
      \* the start of V, without iterator-end pattern
      E("container", [id |-> <<"B">>, startPattern |-> <<"std", "::", "V", "<">>,
                      endPattern |-> <<">", "!!::">>], NoText, <<>>),
      \* children of V
      E("container", [id |-> <<"C">>, inherits |-> <<"V">>, startPattern |-> <<"C", "<">>,
                      view |-> <<"true">>],
        NoText,
        <<E("type", [unstable |-> <<"insert">>], NoText, <<>>),
          E("access", NoAttr, NoText,
            <<E("function", [name |-> <<"at">>, action |-> <<"push">>], NoText, <<>>),
              E("function", [name |-> <<"get">>, yields |-> <<"item">>], NoText, <<>>)>>)>>),
      E("container", [id |-> <<"D">>, inherits |-> <<"V">>], NoText,
        <<Leaf("rangeItemRecordType")>>),
      \* later changes of the parent and of a child
      E("container", [id |-> <<"V">>, endPattern |-> <<">">>], NoText,
        <<E("size", [templateParameter |-> <<"1">>], NoText, <<>>)>>),
      E("container", [id |-> <<"C">>, itEndPattern |-> <<">", "::", "it">>], NoText, <<>>),
      \* a container with itself as parent, and one with a parent that is not there
      E("container", [id |-> <<"V">>, inherits |-> <<"V">>, view |-> <<"true">>], NoText, <<>>),
      E("container", [id |-> <<"D">>, inherits |-> <<"Q">>], NoText, <<>>),
      \* a record type with two members
      E("container", [id |-> <<"R">>], NoText,
        <<E("rangeItemRecordType", NoAttr, NoText,
            <<E("member", [name |-> <<"first">>, templateParameter |-> <<"0">>], NoText, <<>>),
              E("member", [name |-> <<"second">>], NoText, <<>>)>>)>>) }

ContainerDocs ==
    { Def(<<e>>) : e \in ContainerElements }
        \cup { Def(<<e, f>>) : e \in ContainerElements, f \in ContainerElements }

\* the tokens of a type, from its words
Type(words) == [i \in 1..Len(words) |-> <<words[i]>>]

Types ==
    { Type(<<"std", "::", "V", "<", "int", ">">>),
      Type(<<"std", "::", "V", "<", "int", ">", "::", "iterator">>),
      Type(<<"std", "::", "V", "<", "std", "::", "V", "<", "int", ">", ">", "::", "iterator">>),
      Type(<<"V", "<", "int", ">">>),
      Type(<<"S">>),
      Type(<<"S", "::", "T">>),
      Type(<<"W", "<", "int", ">", "::", "iterator">>),
      Type(<<"C", "<", "int", ">">>),
      Type(<<"C", "x", "<", "int", ">">>),
      Type(<<"int">>) }

DetectContainer(typeStart) ==
    /\ \E c \in detectContainer(lib, typeStart) :
          last' = [op |-> "detectContainer", in |-> [typeStart |-> typeStart, withoutStd |-> FALSE],
                   out |-> c]
    /\ pre' = lib
    /\ UNCHANGED <<lib, okPaths, fs, nOps>>

DetectIterator(typeStart) ==
    /\ \E c \in detectIterator(lib, typeStart) :
          last' = [op |-> "detectIterator", in |-> [typeStart |-> typeStart, withoutStd |-> FALSE],
                   out |-> c]
    /\ pre' = lib
    /\ UNCHANGED <<lib, okPaths, fs, nOps>>

DetectContainerOrIterator(typeStart, withoutStd) ==
    /\ \E c \in detectContainerOrIterator(lib, typeStart, withoutStd) :
          last' = [op |-> "detectContainerOrIterator",
                   in |-> [typeStart |-> typeStart, withoutStd |-> withoutStd], out |-> c]
    /\ pre' = lib
    /\ UNCHANGED <<lib, okPaths, fs, nOps>>

NextContainers ==
    \/ \E doc \in ContainerDocs : LoadDocument(doc)
    \/ Loading /\ \E typeStart \in Types : DetectContainer(typeStart)
    \/ Loading /\ \E typeStart \in Types : DetectIterator(typeStart)
    \/ Loading /\ \E typeStart \in Types, withoutStd \in BOOLEAN :
                      DetectContainerOrIterator(typeStart, withoutStd)

SpecContainers == Init /\ [][NextContainers]_vars

(***************************************************************************)
(* C16: detectContainer returns a container only through its end pattern   *)
(* or because its end pattern is empty, detectIterator only through its    *)
(* iterator-end pattern, and detectContainerOrIterator reports an iterator *)
(* exactly when the iterator-end pattern matched; a container is returned  *)
(* only if its strict start pattern matches at the first token.  As        *)
(* claimed: an iterator is reported whenever the tokens from the close     *)
(* partner on match the iterator-end pattern, and the start pattern is     *)
(* matched as it is stored.  As amended: a container without end pattern   *)
(* is never reported as iterator, and the start pattern is matched without *)
(* its leading std :: when the caller asks for that.                       *)
(***************************************************************************)
Detected ==
    last.op \in {"detectContainer", "detectIterator", "detectContainerOrIterator"}
        /\ last.out # NoContainer

\* the place of the close partner of the first linked token of the type looked up
ClosePartner ==
    LET first == firstLinkedTok(last.in.typeStart)
    IN  IF first = 0 THEN 0 ELSE link(last.in.typeStart, first)

\* the tokens from the close partner on match the pattern
AtClosePartner(pattern) == ClosePartner # 0 /\ Match(last.in.typeStart, ClosePartner, pattern)

ModeRespected(c) ==
    /\ last.op = "detectContainer" =>
            /\ last.out.isIterator = FALSE
            /\ c.endPattern = <<>> \/ AtClosePartner(c.endPattern)
    /\ last.op = "detectIterator" =>
            /\ last.out.isIterator = TRUE
            /\ AtClosePartner(c.itEndPattern)
    /\ last.op = "detectContainerOrIterator" =>
            /\ last.out.isIterator => AtClosePartner(c.itEndPattern)
            /\ ~last.out.isIterator => (c.endPattern = <<>> \/ AtClosePartner(c.endPattern))

C16_Claimed ==
    Detected =>
        LET c == lib.mContainers[last.out.container]
        IN  /\ ModeRespected(c)
            /\ last.op = "detectContainerOrIterator" =>
                    (last.out.isIterator = AtClosePartner(c.itEndPattern))
            /\ Match(last.in.typeStart, 1, c.startPattern2)

C16_ModeRespected ==
    Detected =>
        LET c == lib.mContainers[last.out.container]
        IN  /\ ModeRespected(c)
            /\ last.op = "detectContainerOrIterator" =>
                    (last.out.isIterator = (c.endPattern # <<>> /\ AtClosePartner(c.itEndPattern)))
            /\ Match(last.in.typeStart, 1, StartPattern(c, last.in.withoutStd))

\* with V alone, std::V<int>::iterator is an iterator of V and no container, and
\* std::V<int> is the container V and no iterator
C16_Witness ==
    /\ last.op = "detectContainerOrIterator"
    /\ DOMAIN lib.mContainers = {<<"V">>}
    /\ last.in.typeStart = Type(<<"std", "::", "V", "<", "int", ">", "::", "iterator">>)
    /\ last.out = [container |-> <<"V">>, isIterator |-> TRUE]
    /\ detectContainer(lib, last.in.typeStart) = {NoContainer}
    /\ detectIterator(lib, Type(<<"std", "::", "V", "<", "int", ">">>)) = {NoContainer}
    /\ detectContainer(lib, Type(<<"std", "::", "V", "<", "int", ">">>))
            = {[container |-> <<"V">>, isIterator |-> FALSE]}

(***************************************************************************)
(* C17: after a container element with inherits=P has been loaded, every   *)
(* field and function entry the element does not set has P's value from    *)
(* before the element, every field it sets has the element's own value, P  *)
(* is as it was, and loading a container element changes no container but  *)
(* the one it names.                                                       *)
(***************************************************************************)
\* the element the last load ended with
LastElement == last.in.kids[Len(last.in.kids)]

\* the containers before the last element of the document was loaded
ContainersBefore == After(Len(last.in.kids) - 1).data.mContainers

Inherited ==
    /\ LoadedWhole
    /\ LastElement.name = "container"
    /\ HasAttribute(LastElement, "id") /\ HasAttribute(LastElement, "inherits")
    /\ LastElement.attr["inherits"] \in DOMAIN ContainersBefore

\* the descriptor the element gives on its own: without parent, in an empty library
WithoutParent(e) ==
    [e EXCEPT !.attr = [a \in DOMAIN e.attr \ {"inherits"} |-> e.attr[a]]]

Own(e) ==
    LoadContainer([data |-> LibraryData, unknown |-> {}, err |-> NoError],
                  WithoutParent(e)).data.mContainers[e.attr["id"]]

HasKid(e, names, a) ==
    \E k \in 1..Len(e.kids) : e.kids[k].name \in names /\ HasAttribute(e.kids[k], a)

\* the element sets the field f of its descriptor
Sets(e, f) ==
    CASE f \in {"startPattern", "startPattern2"} -> HasAttribute(e, "startPattern")
      [] f \in {"endPattern", "itEndPattern", "opLessAllowed",
                "hasInitializerListConstructor", "view"} -> HasAttribute(e, f)
      [] f = "size_templateArgNo" -> HasKid(e, {"size"}, "templateParameter")
      [] f = "type_templateArgNo" -> HasKid(e, {"type"}, "templateParameter")
      [] f = "arrayLike_indexOp" -> HasKid(e, {"access"}, "indexOperator")
      [] f = "stdStringLike" -> HasKid(e, {"type"}, "string")
      [] f = "stdAssociativeLike" -> HasKid(e, {"type"}, "associative")
      [] f = "unstableErase" -> Own(e).unstableErase
      [] f = "unstableInsert" -> Own(e).unstableInsert
      [] f = "rangeItemRecordType" ->
            \E k \in 1..Len(e.kids) : e.kids[k].name = "rangeItemRecordType"
      [] OTHER -> FALSE

\* the function entries: those of the parent, with what the element sets laid over them
FunctionsInherited(child, own, parent) ==
    /\ DOMAIN child.functions = DOMAIN own.functions \cup DOMAIN parent.functions
    /\ \A n \in DOMAIN parent.functions \ DOMAIN own.functions :
          child.functions[n] = parent.functions[n]
    /\ \A n \in DOMAIN own.functions :
          /\ child.functions[n].action = own.functions[n].action
          /\ child.functions[n].yield = own.functions[n].yield
          /\ child.functions[n].returnType =
                IF own.functions[n].returnType # <<>> THEN own.functions[n].returnType
                ELSE At(parent.functions, n, ContainerFunction).returnType

C17_InheritsCopies ==
    /\ Inherited =>
          LET e == LastElement
              child == lib.mContainers[e.attr["id"]]
              parent == ContainersBefore[e.attr["inherits"]]
          IN  /\ \A f \in DOMAIN Container \ {"functions"} :
                    child[f] = IF Sets(e, f) THEN Own(e)[f] ELSE parent[f]
              /\ FunctionsInherited(child, Own(e), parent)
              /\ lib.mContainers[e.attr["inherits"]] = parent
    /\ (LoadedWhole /\ LastElement.name = "container" /\ HasAttribute(LastElement, "id")) =>
          \A id \in DOMAIN ContainersBefore \ {LastElement.attr["id"]} :
              lib.mContainers[id] = ContainersBefore[id]

(***************************************************************************)
(* Platform types: documents of platformtype elements are loaded and the  *)
(* type of a name on a platform is asked for                              *)
(***************************************************************************)
PlatformElement(name, value, kids) ==
    E("platformtype", [name |-> <<name>>, value |-> <<value>>], NoText, kids)

Platform(type) == E("platform", [type |-> <<type>>], NoText, <<>>)

PlatformElements ==
    { PlatformElement("T", "int", <<>>),
      PlatformElement("T", "int", <<Leaf("unsigned")>>),
      PlatformElement("T", "int", <<Platform("unix")>>),
      PlatformElement("T", "long", <<Platform("unix")>>),
      PlatformElement("T", "int", <<Platform("linux"), Platform("unix")>>),
      PlatformElement("T", "int", <<Platform("win"), Leaf("unsigned")>>),
      PlatformElement("U", "int", <<Leaf("pointer"), Leaf("sign")>>),
      \* elements that define nothing
      E("platformtype", [name |-> <<"T">>], NoText, <<>>),
      PlatformElement("T", "int", <<Leaf("platform")>>) }

PlatformDocs ==
    { Def(<<e>>) : e \in PlatformElements }
        \cup { Def(<<e, f>>) : e \in PlatformElements, f \in PlatformElements }

PlatformNames == {<<"T">>, <<"U">>}

Platforms == {"unix", "linux", "win", ""}

\* Library::platform_type(name, platform) on the instance
PlatformTypeOf(name, platform) ==
    /\ last' = [op |-> "platform_type", in |-> [name |-> name, platform |-> platform],
                out |-> platform_type(lib, name, platform)]
    /\ pre' = lib
    /\ UNCHANGED <<lib, okPaths, fs, nOps>>

NextPlatforms ==
    \/ \E doc \in PlatformDocs : LoadDocument(doc)
    \/ Loading /\ \E name \in PlatformNames, platform \in Platforms :
                      PlatformTypeOf(name, platform)

SpecPlatforms == Init /\ [][NextPlatforms]_vars

\* the scopes a platformtype element names: its platforms, or the global scope
GlobalScope == "<global>"

ScopesOf(e) ==
    LET ps == { NameOf(e.kids[i].attr["type"]) :
                    i \in { j \in 1..Len(e.kids) : e.kids[j].name = "platform" } }
    IN  IF ps = {} THEN {GlobalScope} ELSE ps

\* the definitions of one scope
TableOf(data, scope) ==
    IF scope = GlobalScope THEN data.mPlatformTypes ELSE At(data.mPlatforms, scope, EmptyMap)

\* every scope has the same definitions in a and in b
SameTables(a, b) ==
    \A scope \in {GlobalScope} \cup Platforms : TableOf(a, scope) = TableOf(b, scope)

\* the last load ended with a platformtype element that defines a name
Defines ==
    /\ last.op = "load"
    /\ SupportedRoot(last.in)
    /\ Len(last.in.kids) >= 1
    /\ After(Len(last.in.kids) - 1).err = NoError
    /\ LastElement.name = "platformtype"
    /\ HasAttribute(LastElement, "name")
    /\ HasAttribute(LastElement, "value")
    /\ \A i \in 1..Len(LastElement.kids) :
          LastElement.kids[i].name = "platform" => HasAttribute(LastElement.kids[i], "type")

\* the tables before the last element of the document was loaded
TypesBefore == After(Len(last.in.kids) - 1).data

\* the type the last element gives its name
TypeOf(e) ==
    [f \in DOMAIN PlatformType |->
        IF f = "mType" THEN e.attr["value"]
        ELSE \E i \in 1..Len(e.kids) :
                e.kids[i].name = CASE f = "mSigned" -> "signed"
                                   [] f = "mUnsigned" -> "unsigned"
                                   [] f = "mLong" -> "long"
                                   [] f = "mPointer" -> "pointer"
                                   [] f = "mPtrPtr" -> "ptr_ptr"
                                   [] f = "mConstPtr" -> "const_ptr"]

\* the scopes of the last element in which its name has a definition already
Taken ==
    { scope \in ScopesOf(LastElement) :
          LastElement.attr["name"] \in DOMAIN TableOf(TypesBefore, scope) }

Rejected ==
    /\ last.out.errorcode \in {"DUPLICATE_PLATFORM_TYPE", "PLATFORM_TYPE_REDEFINED"}
    /\ last.out.errorcode = "DUPLICATE_PLATFORM_TYPE" =>
          \E scope \in Taken :
              TableOf(TypesBefore, scope)[LastElement.attr["name"]] = TypeOf(LastElement)
    /\ last.out.errorcode = "PLATFORM_TYPE_REDEFINED" =>
          \E scope \in Taken :
              TableOf(TypesBefore, scope)[LastElement.attr["name"]] # TypeOf(LastElement)

\* a definition that is there stays as it is
FirstStays ==
    last.op = "load" =>
        \A scope \in {GlobalScope} \cup Platforms :
            \A name \in DOMAIN TableOf(pre, scope) :
                /\ name \in DOMAIN TableOf(lib, scope)
                /\ TableOf(lib, scope)[name] = TableOf(pre, scope)[name]

(***************************************************************************)
(* C18: a platformtype element whose name has a definition in one of its   *)
(* scopes is rejected, as a duplicate when the definition is the same and  *)
(* as a redefinition otherwise, and leaves every platform-type table as it *)
(* was; a definition, once accepted, is never replaced.                    *)
(***************************************************************************)
C18_RedefinitionRejected ==
    /\ (Defines /\ Taken # {}) => (Rejected /\ SameTables(lib, TypesBefore))
    /\ FirstStays

(***************************************************************************)
(* Queries on calls: functions with argument checks, format strings and    *)
(* noreturn states are loaded, and calls are asked about                   *)
(***************************************************************************)
FunctionElement(name, kids) == E("function", [name |-> <<name>>], NoText, kids)

ArgOf(nr, kids) == E("arg", [nr |-> <<nr>>], NoText, kids)

QueryElements ==
    { \* a scan function, a secure print function
      FunctionElement("s", <<E("noreturn", NoAttr, <<"false">>, <<>>),
                             E("formatstr", [scan |-> <<"true">>], NoText, <<>>),
                             ArgOf("1", <<Leaf("formatstr")>>)>>),
      FunctionElement("p", <<E("formatstr", [secure |-> <<"true">>], NoText, <<>>),
                             ArgOf("1", <<Leaf("not-null")>>),
                             ArgOf("2", <<Leaf("formatstr")>>)>>),
      \* argument checks and the three noreturn states
      FunctionElement("f", <<E("noreturn", NoAttr, <<"maybe">>, <<>>),
                             ArgOf("1", <<Leaf("not-null"),
                                          E("not-uninit", [indirect |-> <<"1">>], NoText, <<>>)>>)>>),
      FunctionElement("g", <<E("noreturn", NoAttr, <<"true">>, <<>>)>>),
      FunctionElement("h", <<ArgOf("1", <<Leaf("not-uninit")>>)>>),
      \* an allocation function without function element, and a type check on the name h
      E("memory", NoAttr, NoText,
        <<E("alloc", [arg |-> <<"1">>], <<"m">>, <<>>), E("dealloc", NoAttr, <<"d">>, <<>>)>>),
      E("type-checks", NoAttr, NoText,
        <<E("unusedvar", NoAttr, NoText, <<E("check", NoAttr, <<"h">>, <<>>)>>)>>) }

QueryDocs == { Def(<<e>>) : e \in QueryElements }

QueryNames == {"s", "p", "f", "g", "h", "m", "q"}

QueryCalls ==
    [funcname : QueryNames, callargs : 0..2, excluded : BOOLEAN, noreturn : {""}]

\* calls of functions and variables that the analysed code declares noreturn
NoreturnCalls ==
    QueryCalls
        \cup [funcname : QueryNames, callargs : 0..2, excluded : BOOLEAN, noreturn : {"function"}]
        \cup [funcname : QueryNames, callargs : 0..2, excluded : {TRUE}, noreturn : {"variable"}]

Indirections == 0..2

\* a query with the result out leaves the instance as it is
Asks(op, in, out) ==
    /\ last' = [op |-> op, in |-> in, out |-> out]
    /\ pre' = lib
    /\ UNCHANGED <<lib, okPaths, fs, nOps>>

IsNullArgBad(ftok, argnr) ==
    Asks("isnullargbad", [tok |-> ftok, argnr |-> argnr], isnullargbad(lib, ftok, argnr))

IsUninitArgBad(ftok, argnr, indirect) ==
    Asks("isuninitargbad", [tok |-> ftok, argnr |-> argnr, indirect |-> indirect],
         isuninitargbad(lib, ftok, argnr, indirect))

FormatstrFunction(ftok) ==
    Asks("formatstr_function", [tok |-> ftok], formatstr_function(lib, ftok))

FormatstrArgno(ftok) ==
    Asks("formatstr_argno", [tok |-> ftok], formatstr_argno(lib, ftok))

FormatstrScan(ftok) ==
    Asks("formatstr_scan", [tok |-> ftok], formatstr_scan(lib, ftok))

FormatstrSecure(ftok) ==
    Asks("formatstr_secure", [tok |-> ftok], formatstr_secure(lib, ftok))

IsNoReturn(ftok) ==
    Asks("isnoreturn", [tok |-> ftok], isnoreturn(lib, ftok))

IsNotNoReturn(ftok) ==
    Asks("isnotnoreturn", [tok |-> ftok], isnotnoreturn(lib, ftok))

NextQueries ==
    \/ \E doc \in QueryDocs : LoadDocument(doc)
    \/ Loading /\ \E ftok \in QueryCalls, argnr \in ArgPositions : IsNullArgBad(ftok, argnr)
    \/ Loading /\ \E ftok \in QueryCalls, argnr \in ArgPositions, indirect \in Indirections :
                      IsUninitArgBad(ftok, argnr, indirect)
    \/ Loading /\ \E ftok \in QueryCalls : FormatstrFunction(ftok)
    \/ Loading /\ \E ftok \in QueryCalls : FormatstrArgno(ftok)
    \/ Loading /\ \E ftok \in QueryCalls : FormatstrScan(ftok)
    \/ Loading /\ \E ftok \in QueryCalls : FormatstrSecure(ftok)
    \/ Loading /\ \E ftok \in NoreturnCalls : IsNoReturn(ftok)
    \/ Loading /\ \E ftok \in NoreturnCalls : IsNotNoReturn(ftok)
    \/ \E ftok \in QueryCalls, arg \in ArgPositions : GetAllocId(ftok, arg)

SpecQueries == Init /\ [][NextQueries]_vars

\* the call of the last query is not a call of a library function
Unresolved ==
    /\ last.op \in {"isnullargbad", "isuninitargbad", "formatstr_function", "isnoreturn",
                    "isnotnoreturn", "getAllocId"}
    /\ last.in.tok.noreturn = ""
    /\ \/ last.in.tok.excluded
       \/ ~matchArguments(lib, last.in.tok.callargs, last.in.tok.funcname)

\* the value a query gives when nothing is known
Neutral == IF last.op = "getAllocId" THEN last.out = 0 ELSE last.out = FALSE

(***************************************************************************)
(* C21: for a call that is excluded from the lookup, or whose number of    *)
(* arguments does not fit the function of its name, every query gives its  *)
(* neutral value: isnullargbad and isuninitargbad give false for every     *)
(* position and indirection.                                               *)
(***************************************************************************)
C21_UnresolvedIsNeutral == Unresolved => Neutral

(***************************************************************************)
(* C22: every query returns a value, whatever the call and the loaded      *)
(* tables are; none leaves with an exception, formatstr_argno,             *)
(* formatstr_scan and formatstr_secure included when the name of the call  *)
(* has no entry in the function table.                                     *)
(***************************************************************************)
C22_QueriesReturn ==
    last.op \in {"formatstr_argno", "formatstr_scan", "formatstr_secure"} => ~last.out.thrown

\* the stored noreturn state of the function the last query resolved
Resolved ==
    /\ last.op \in {"isnoreturn", "isnotnoreturn"}
    /\ ~isNotLibraryFunction(lib, last.in.tok)

Stored == At(lib.mNoReturn, last.in.tok.funcname, "none")

Collapsed ==
    /\ Stored \in {"Maybe", "True"} => last.out = (last.op = "isnoreturn")
    /\ Stored = "False" => last.out = (last.op = "isnotnoreturn")
    /\ Stored = "none" => last.out = FALSE

\* the claim as it is written, for every call that resolves to a library function
C23_Claimed == Resolved => Collapsed

(***************************************************************************)
(* C23: for a call that resolves to a library function and whose function  *)
(* is not declared noreturn in the analysed code, isnoreturn is true and   *)
(* isnotnoreturn false when the stored state is Maybe or True, isnoreturn  *)
(* is false and isnotnoreturn true when it is False, and both are false    *)
(* when no state is stored.                                                *)
(***************************************************************************)
C23_NoreturnCollapse == (Resolved /\ last.in.tok.noreturn = "") => Collapsed

\* isnotnoreturn is true for a resolved call whose stored state is False
C23_Witness ==
    /\ Resolved
    /\ last.in.tok.noreturn = ""
    /\ last.op = "isnotnoreturn"
    /\ Stored = "False"
    /\ last.out = TRUE

(***************************************************************************)
(* Buffer sizes: a block with one alloc or realloc entry and a buffer-size *)
(* attribute is loaded into a new instance.  The attribute is read without *)
(* looking at the tables, so the first load of an instance shows all of it *)
(***************************************************************************)
BufferKinds == {"malloc", "calloc", "strdup", "mallox"}

BufferAlphabet == {":", ",", "1", "5", "6", "x"}

\* what follows the six characters of the kind
BufferSuffixes == UNION {[1..n -> BufferAlphabet] : n \in 0..(MaxExprLen + 1)}

BufferDoc(entry, kind, suffix) ==
    Def(<<E("memory", NoAttr, NoText,
            <<E(entry, ("buffer-size" :> (<<kind>> \o suffix)), <<"A">>, <<>>)>>)>>)

BufferDocs ==
    { BufferDoc(entry, kind, suffix) :
          entry \in {"alloc", "realloc"}, kind \in BufferKinds, suffix \in BufferSuffixes }

NextBuffers == nOps = 0 /\ \E doc \in BufferDocs : LoadDocument(doc)

SpecBuffers == Init /\ [][NextBuffers]_vars

\* the entry the last load was given, its attribute, and what the attribute has after the kind
BufferEntry == last.in.kids[1].kids[1]

BufferText == BufferEntry.attr["buffer-size"]

BufferRest == SubSeq(BufferText, 2, Len(BufferText))

IsPosition(c) == c \in {"1", "2", "3", "4", "5"}

\* malloc, calloc or strdup, then nothing, ':N' or ':N,M'
WellFormedBufferSize ==
    /\ BufferText[1] \in {"malloc", "calloc", "strdup"}
    /\ \/ BufferRest = <<>>
       \/ Len(BufferRest) = 2 /\ BufferRest[1] = ":" /\ IsPosition(BufferRest[2])
       \/ /\ Len(BufferRest) = 4
          /\ BufferRest[1] = ":" /\ IsPosition(BufferRest[2])
          /\ BufferRest[3] = "," /\ IsPosition(BufferRest[4])

\* the entry stored for the name A
StoredEntry == IF BufferEntry.name = "alloc" THEN lib.mAlloc["A"] ELSE lib.mRealloc["A"]

(***************************************************************************)
(* C25: the buffer-size attribute of an alloc or realloc entry is accepted *)
(* when it is malloc, calloc or strdup, alone or followed by ':N' or       *)
(* ':N,M' with positions N and M; every other text gives                   *)
(* BAD_ATTRIBUTE_VALUE.  Accepted without positions, the positions are 1   *)
(* and 2.                                                                  *)
(***************************************************************************)
C25_BufferSizeGrammar ==
    last.op = "load" =>
        /\ WellFormedBufferSize <=> last.out.errorcode = "OK"
        /\ ~WellFormedBufferSize => last.out.errorcode = "BAD_ATTRIBUTE_VALUE"
        /\ (WellFormedBufferSize /\ BufferRest = <<>>) =>
              (StoredEntry.bufferSizeArg1 = 1 /\ StoredEntry.bufferSizeArg2 = 2)

(***************************************************************************)
(* Bit operations on char variables: one operator token is checked        *)
(***************************************************************************)
OperandValues == {-1, 3, 128}

\* operands with possible values, and operands with one known value
Operands ==
    [signedChar : BOOLEAN, values : SUBSET OperandValues, known : {FALSE}]
        \cup [signedChar : BOOLEAN, values : {{v} : v \in OperandValues}, known : {TRUE}]

OperatorTokens ==
    [str : {"&", "|", "^"}, astOperand1 : Operands, astOperand2 : Operands,
     parent : {"=", "+"}, lhs : {"none", "CHAR", "SHORT", "INT"}]

CheckCharVariable(warning, tok) ==
    /\ last' = [op |-> "checkCharVariable", in |-> [warning |-> warning, tok |-> tok],
                out |-> checkCharVariable(warning, tok)]
    /\ pre' = lib
    /\ UNCHANGED <<lib, okPaths, fs, nOps>>

NextCharVar ==
    Loading /\ \E warning \in BOOLEAN, tok \in OperatorTokens : CheckCharVariable(warning, tok)

SpecCharVar == Init /\ [][NextCharVar]_vars

\* a signed char operand that can hold a negative value
CanBeNegative(operand) ==
    operand.signedChar /\ \E v \in operand.values : v <= -1 \/ v >= 128

\* the operand has a known greatest value in 0..0xFF
KnownSmall(operand) ==
    /\ operand.values # {}
    /\ operand.known
    /\ \A v \in operand.values : v >= 0 /\ v < 256

\* the token with its operands on the other sides
Swapped(tok) == [tok EXCEPT !.astOperand1 = tok.astOperand2, !.astOperand2 = tok.astOperand1]

\* what the rule asks for the token: one side is a signed char that can be negative, the
\* operation is no & with a small known other side, and the result goes into a short or wider
ShouldReport(tok) ==
    /\ \/ CanBeNegative(tok.astOperand1) /\ ~(tok.str = "&" /\ KnownSmall(tok.astOperand2))
       \/ CanBeNegative(tok.astOperand2) /\ ~(tok.str = "&" /\ KnownSmall(tok.astOperand1))
    /\ tok.parent = "="
    /\ tok.lhs \in {"SHORT", "INT"}

(***************************************************************************)
(* C26: with warnings enabled, charBitOp is reported on a binary &, | or ^ *)
(* exactly when one operand is a signed char that can hold a negative      *)
(* value, the operation is not an & with an operand of known maximum in    *)
(* 0..0xFF, and the result is assigned to a short or wider; the operands   *)
(* can be swapped without changing the outcome.                            *)
(***************************************************************************)
C26_CharBitOp ==
    (last.op = "checkCharVariable" /\ last.in.warning) =>
        /\ last.out <=> ShouldReport(last.in.tok)
        /\ last.out <=> checkCharVariable(TRUE, Swapped(last.in.tok))

(***************************************************************************)
(* C27: after the blocks of a document are loaded, the alloc and realloc   *)
(* names and the dealloc names that one block declared together have one   *)
(* group id, also when a later block declared one of the names again.      *)
(***************************************************************************)
ReallocNames(b) == UNION {NamesOf(k) : k \in {x \in Range(b.kids) : x.name = "realloc"}}

\* the group ids the names of block b have in the tables
IdsOf(b) ==
    {lib.mAlloc[n].groupId : n \in AllocNames(b)}
        \cup {lib.mRealloc[n].groupId : n \in ReallocNames(b)}
        \cup {lib.mDealloc[n].groupId : n \in DeallocNames(b)}

C27_FamilySharesId ==
    LoadedWhole =>
        \A i \in 1..Len(last.in.kids) :
            IsBlock(last.in.kids[i]) => Cardinality(IdsOf(last.in.kids[i])) <= 1

(***************************************************************************)
(* C28: every entry of the alloc, dealloc and realloc tables has a group   *)
(* id of 1 or more, the id counter never goes down, and a block none of    *)
(* whose dealloc names was known gets an id greater than the counter and   *)
(* than every id in the tables before it.                                  *)
(***************************************************************************)
\* the group ids in the tables
GroupIds(data) ==
    {data.mAlloc[n].groupId : n \in DOMAIN data.mAlloc}
        \cup {data.mDealloc[n].groupId : n \in DOMAIN data.mDealloc}
        \cup {data.mRealloc[n].groupId : n \in DOMAIN data.mRealloc}

\* the tables before the last block of the document was loaded
BlocksBefore == After(Len(last.in.kids) - 1).data

\* the last block of the document reused no id
MintedLast ==
    /\ LoadedWhole
    /\ IsBlock(LastBlock)
    /\ DeallocNames(LastBlock) \cap DOMAIN BlocksBefore.mDealloc = {}

C28_IdsGrow ==
    /\ \A id \in GroupIds(lib) : id >= 1
    /\ lib.mAllocId >= pre.mAllocId
    /\ MintedLast =>
          /\ lib.mAllocId > BlocksBefore.mAllocId
          /\ \A id \in IdsOf(LastBlock) :
                /\ id = lib.mAllocId
                /\ id > BlocksBefore.mAllocId
                /\ \A other \in GroupIds(BlocksBefore) : id > other

\* the second block of a document got a new id, after a load that had given ids before
C28_Witness ==
    /\ MintedLast
    /\ Len(last.in.kids) = 2
    /\ IsBlock(last.in.kids[1])
    /\ pre.mAllocId > 0
    /\ BlocksBefore.mAllocId > pre.mAllocId
    /\ IdsOf(LastBlock) # {}
    /\ Cardinality(GroupIds(lib)) >= 3

(***************************************************************************)
(* C30: after a container element with a rangeItemRecordType child is      *)
(* loaded, the range-item list of the container has one entry for every    *)
(* child of the rangeItemRecordType element, in the order of the document, *)
(* with the name and the templateParameter of the child, -1 when it has    *)
(* none.  Stated for a container that is new and has no parent.            *)
(***************************************************************************)
\* the rangeItemRecordType children of element e
RecordTypes(e) == {k \in 1..Len(e.kids) : e.kids[k].name = "rangeItemRecordType"}

\* the last element is a new container without parent and with one rangeItemRecordType child
NewRecordContainer ==
    /\ LoadedWhole
    /\ LastElement.name = "container"
    /\ HasAttribute(LastElement, "id")
    /\ ~HasAttribute(LastElement, "inherits")
    /\ LastElement.attr["id"] \notin DOMAIN ContainersBefore
    /\ Cardinality(RecordTypes(LastElement)) = 1

\* the entry the claim gives for a member
MemberItem(member) ==
    [name |-> IF HasAttribute(member, "name") THEN member.attr["name"] ELSE <<>>,
     templateParameter |-> IF HasAttribute(member, "templateParameter")
                           THEN StrToInt(member.attr["templateParameter"]) ELSE -1]

C30_RangeItemsAreTheMembers ==
    NewRecordContainer =>
        LET record == LastElement.kids[CHOOSE k \in RecordTypes(LastElement) : TRUE]
        IN  lib.mContainers[LastElement.attr["id"]].rangeItemRecordType =
                [i \in 1..Len(record.kids) |-> MemberItem(record.kids[i])]

(***************************************************************************)
(* The validity-expression grammar: expressions are submitted to the       *)
(* compliance test                                                         *)
(***************************************************************************)
ExprAlphabet == {"0", "1", "5", "-", "+", ":", ",", ".", "e", "E", "!", "x"}

\* the pieces expressions are put together from: the characters, and some numerals
ExprPieces ==
    {<<c>> : c \in ExprAlphabet}
        \cup {<<"1", ".">>, <<"1", "e">>, <<"1", ".", "1">>, <<"1", "e", "1">>}

RECURSIVE Concat(_)
Concat(ps) == IF ps = <<>> THEN <<>> ELSE Head(ps) \o Concat(Tail(ps))

Expressions ==
    {NoText} \cup {Concat(ps) : ps \in UNION {[1..n -> ExprPieces] : n \in 0..MaxExprLen}}

IsCompliantValidationExpression(p) ==
    /\ last' = [op |-> "isCompliantValidationExpression", in |-> p,
                out |-> isCompliantValidationExpression(p)]
    /\ pre' = lib
    /\ UNCHANGED <<lib, okPaths, fs, nOps>>

\* the test is a static function of its argument: a behaviour applies it once
NextValid == Loading /\ \E p \in Expressions : IsCompliantValidationExpression(p)

SpecValid == Init /\ [][NextValid]_vars

\* the grammar: numeral = [sign] digits [. digits] [e [sign] digits]
IsDigits(s) == Len(s) >= 1 /\ \A i \in 1..Len(s) : isdigit(s[i])

IsSigned(s) == IsDigits(s) \/ (Len(s) >= 2 /\ s[1] \in {"+", "-"} /\ IsDigits(Tail(s)))

IsMantissa(s) ==
    \/ IsSigned(s)
    \/ \E k \in 1..Len(s) :
          s[k] = "." /\ IsSigned(SubSeq(s, 1, k - 1)) /\ IsDigits(SubSeq(s, k + 1, Len(s)))

IsNumeral(s) ==
    \/ IsMantissa(s)
    \/ \E k \in 1..Len(s) :
          s[k] \in {"e", "E"} /\ IsMantissa(SubSeq(s, 1, k - 1))
                              /\ IsSigned(SubSeq(s, k + 1, Len(s)))

\* a literal, lo:hi, lo: or :hi
IsSegment(s) ==
    \/ IsNumeral(s)
    \/ \E k \in 1..Len(s) :
          /\ s[k] = ":"
          /\ LET lo == SubSeq(s, 1, k - 1)
                 hi == SubSeq(s, k + 1, Len(s))
             IN  \/ IsNumeral(lo) /\ IsNumeral(hi)
                 \/ IsNumeral(lo) /\ hi = <<>>
                 \/ lo = <<>> /\ IsNumeral(hi)

RECURSIVE InGrammar(_)
InGrammar(s) ==
    \/ IsSegment(s)
    \/ \E k \in 1..Len(s) :
          s[k] = "," /\ IsSegment(SubSeq(s, 1, k - 1)) /\ InGrammar(SubSeq(s, k + 1, Len(s)))

(***************************************************************************)
(* C10: every string the compliance test accepts is a comma-separated list *)
(* of segments, each a numeral, lo:hi, lo: or :hi, with numerals that hold *)
(* at least one digit.                                                     *)
(***************************************************************************)
C10_AcceptedIsInGrammar ==
    (last.op = "isCompliantValidationExpression" /\ last.out = TRUE) =>
        (last.in # NoText /\ InGrammar(last.in))

(***************************************************************************)
(* C11: the compliance test rejects a null or empty string, a leading '.', *)
(* a character outside 0-9 . : , + - E e !, two '.' with neither ':' nor   *)
(* ',' between them, a digit followed by '-', two ':' with no ',' between  *)
(* them, ':' or ',' followed by '.', and '!' not followed by a sign or a   *)
(* digit; it accepts "1:5", "0:," and ":10".                               *)
(***************************************************************************)
Tested == last.op = "isCompliantValidationExpression"

\* positions i < j of s that hold characters of cs with no character of seps between them
Repeated(s, cs, seps) ==
    \E i \in 1..Len(s), j \in 1..Len(s) :
        /\ i < j /\ s[i] \in cs /\ s[j] \in cs
        /\ \A k \in (i + 1)..(j - 1) : s[k] \notin seps

\* some character of cs is followed by a character of next ("<nul>" at the end)
Followed(s, cs, next) == \E i \in 1..Len(s) : s[i] \in cs /\ CharAt(s, i + 1) \in next

Digits == {"0", "1", "2", "3", "4", "5", "6", "7", "8", "9"}

ExprChars == Digits \cup {".", ":", ",", "+", "-", "E", "e", "!"}

MustReject(s) ==
    \/ s = NoText \/ s = <<>>
    \/ s[1] = "."
    \/ \E i \in 1..Len(s) : s[i] \notin ExprChars
    \/ Repeated(s, {"."}, {":", ","})
    \/ Followed(s, Digits, {"-"})
    \/ Repeated(s, {":"}, {","})
    \/ Followed(s, {":", ","}, {"."})
    \/ \E i \in 1..Len(s) : s[i] = "!" /\ CharAt(s, i + 1) \notin Digits \cup {"+", "-"}

MustAccept == {<<"1", ":", "5">>, <<"0", ":", ",">>, <<":", "1", "0">>}

C11_RejectedAndAccepted ==
    Tested => /\ MustReject(last.in) => last.out = FALSE
              /\ last.in \in MustAccept => last.out = TRUE

\* "1.1.1" is rejected for its second '.', and the three examples are accepted
C11_Witness ==
    /\ Tested
    /\ last.in = <<"1", ".", "1", ".", "1">> /\ last.out = FALSE
    /\ isCompliantValidationExpression(<<"1", ".", "1">>)
    /\ \A s \in MustAccept : isCompliantValidationExpression(s)

(***************************************************************************)
(* C12: the compliance test rejects every string in which 'E' or 'e'       *)
(* occurs twice within one segment.  As claimed, a segment is the text     *)
(* between two commas; as amended, the two occurrences have neither ','    *)
(* nor ':' between them.                                                   *)
(***************************************************************************)
C12_Claimed ==
    (Tested /\ last.in # NoText /\ Repeated(last.in, {"E", "e"}, {","})) => last.out = FALSE

C12_RepeatedExponent ==
    (Tested /\ last.in # NoText /\ Repeated(last.in, {"E", "e"}, {",", ":"})) => last.out = FALSE

\* "1e1e1" is rejected for its second 'e'
C12_Witness ==
    /\ Tested
    /\ last.in = <<"1", "e", "1", "e", "1">> /\ last.out = FALSE
    /\ isCompliantValidationExpression(<<"1", "e", "1">>)

(***************************************************************************)
(* Loading by path: the files of a file system are loaded by name          *)
(***************************************************************************)
DefineDoc == Def(<<E("define", [name |-> <<"X">>, value |-> <<"1">>], NoText, <<>>)>>)

MemoryDoc ==
    Def(<<E("memory", NoAttr, NoText,
            <<E("alloc", [arg |-> <<"1">>], <<"A">>, <<>>),
              E("dealloc", NoAttr, <<"F">>, <<>>)>>)>>)

StrayDoc ==
    Def(<<E("define", [name |-> <<"Y">>, value |-> <<"1">>], NoText, <<>>),
          E("stray", NoAttr, NoText, <<>>)>>)

FileContents ==
    { [status |-> "XML_SUCCESS", doc |-> DefineDoc],
      [status |-> "XML_SUCCESS", doc |-> StrayDoc],
      [status |-> "XML_ERROR_PARSING", doc |-> NoRoot] }

\* a.cfg lies in one of the folders, or in the install-time folder and in a folder of the
\* executable with another content; b.cfg lies next to the executable
FileSystems ==
    { [files |-> (<<dir, "a.cfg">> :> content)
                    @@ (<<"exe", "b.cfg">> :> [status |-> "XML_SUCCESS", doc |-> MemoryDoc]),
       hasFilesDir |-> hasFilesDir] :
        dir \in Dirs, content \in FileContents, hasFilesDir \in BOOLEAN }
      \cup
    { [files |-> (<<"files/cfg", "a.cfg">> :> [status |-> "XML_SUCCESS", doc |-> DefineDoc])
                    @@ (<<dir, "a.cfg">> :> content)
                    @@ (<<"exe", "b.cfg">> :> [status |-> "XML_SUCCESS", doc |-> MemoryDoc]),
       hasFilesDir |-> TRUE] :
        dir \in {"exe", "exe/cfg"},
        content \in {[status |-> "XML_SUCCESS", doc |-> StrayDoc],
                      [status |-> "XML_ERROR_PARSING", doc |-> NoRoot]} }

Paths ==
    { [abs |-> FALSE, dir |-> ".", file |-> f] : f \in {"a", "a.cfg", "b", "a,b"} }
        \cup { [abs |-> TRUE, dir |-> d, file |-> "a.cfg"] : d \in Dirs }

InitFiles ==
    /\ lib = LibraryData
    /\ pre = LibraryData
    /\ last = [op |-> "init", in |-> <<>>, out |-> <<>>]
    /\ okPaths = {}
    /\ fs \in FileSystems
    /\ nOps = 0

NextFiles == \E exename \in BOOLEAN, path \in Paths : LoadPath(exename, path)

SpecFiles == InitFiles /\ [][NextFiles]_vars

(***************************************************************************)
(* C19: load ends with one of the ten result categories, whatever the path *)
(* and the document are; it never ends with an exception.                  *)
(***************************************************************************)
Categories ==
    {"OK", "FILE_NOT_FOUND", "BAD_XML", "UNSUPPORTED_FORMAT", "MISSING_ATTRIBUTE",
     "BAD_ATTRIBUTE_VALUE", "DUPLICATE_DEFINE", "DUPLICATE_PLATFORM_TYPE",
     "PLATFORM_TYPE_REDEFINED", "UNKNOWN_ELEMENT"}

C19_CategoricalResults ==
    /\ last.op = "loadPath" => last.out.err.errorcode \in Categories
    /\ last.op = "load" => last.out.errorcode \in Categories

(***************************************************************************)
(* C1: once a load by path has returned Ok for a path that resolves to the *)
(* absolute path P, every later load that resolves to P returns Ok and     *)
(* leaves all tables, the id counter and the set of loaded paths as they   *)
(* were.                                                                   *)
(***************************************************************************)
C1_ReloadIsNoOp ==
    [][(last'.op = "loadPath" /\ last'.out.absolute_path \in okPaths)
          => (last'.out.err = OK /\ lib' = lib)]_vars

\* a load that resolved to a path loaded before, by another name, with tables that are not empty
C1_Witness ==
    /\ last.op = "loadPath"
    /\ last.out.err = OK
    /\ last.out.absolute_path \in pre.mFiles
    /\ last.in.path.abs
    /\ lib = pre
    /\ lib.mDefines # {}
    /\ lib.mAlloc # EmptyMap
    /\ nOps = 3

(***************************************************************************)
(* C20: a relative path that is not found as given is looked for in the    *)
(* install-time folder first and then in the folders of the executable;    *)
(* the first folder in that order that has the file decides the result,    *)
(* FILE_NOT_FOUND is returned only when no folder has it, and an absolute  *)
(* path is looked for nowhere else.                                        *)
(***************************************************************************)
\* the file name load looks for
Sought == IF ~last.in.path.abs /\ HasNoExtension(last.in.path.file)
          THEN WithCfg(last.in.path.file) ELSE last.in.path.file

Has(dir) == <<dir, Sought>> \in DOMAIN fs.files

\* a load by a path without comma that is not found as given
NotFoundAsGiven ==
    /\ last.op = "loadPath"
    /\ ~HasComma(last.in.path.file)
    /\ ~Has(IF last.in.path.abs THEN last.in.path.dir ELSE "cwd")

ExeFolders == IF last.in.exename THEN {"exe", "exe/cfg"} ELSE {}

InstallFolder == IF fs.hasFilesDir THEN {"files/cfg"} ELSE {}

\* the load ended with what the file in folder dir gives
DecidedBy(dir) ==
    /\ last.out.absolute_path = <<dir, Sought>>
    /\ last.out.err.errorcode = "FILE_NOT_FOUND" => fs.files[<<dir, Sought>>].status = "XML_ERROR_FILE_NOT_FOUND"
    /\ fs.files[<<dir, Sought>>].status = "XML_ERROR_PARSING" => last.out.err.errorcode = "BAD_XML"

NothingFound ==
    /\ last.out.err.errorcode = "FILE_NOT_FOUND"
    /\ last.out.absolute_path = <<>>
    /\ lib = pre

C20_ProbeOrder ==
    NotFoundAsGiven =>
        IF last.in.path.abs THEN NothingFound
        ELSE IF \E dir \in InstallFolder : Has(dir) THEN DecidedBy("files/cfg")
        ELSE IF \E dir \in ExeFolders : Has(dir) THEN \E dir \in ExeFolders : Has(dir) /\ DecidedBy(dir)
        ELSE NothingFound

(***************************************************************************)
(* C29: a resolved path enters the set of loaded paths only when the load  *)
(* of its document returned OK; a load of a path that is not in the set    *)
(* processes the document against the tables as they are, those that an    *)
(* earlier attempt with another result than OK has left included, so the   *)
(* second attempt can end with another result than the first.              *)
(***************************************************************************)
\* the file the last load by path opened
Opened == OpenLibrary(fs, last.in.exename, last.in.path)

\* the last load opened a document whose path was not in the set of loaded paths
Processed ==
    /\ last.op = "loadPath"
    /\ ~HasComma(last.in.path.file)
    /\ Opened.status = "XML_SUCCESS"
    /\ Opened.absolute_path \notin pre.mFiles

C29_OnlyOkIsRecorded ==
    /\ (last.op = "loadPath" /\ lib.mFiles # pre.mFiles) =>
            /\ last.out.err = OK
            /\ lib.mFiles = pre.mFiles \cup {last.out.absolute_path}
    /\ Processed =>
            LET r == load(pre, Opened.doc)
            IN  /\ last.out.err = r.err
                /\ r.err # OK => lib = r.data /\ Opened.absolute_path \notin lib.mFiles
                /\ r.err = OK => lib = [r.data EXCEPT !.mFiles = @ \cup {Opened.absolute_path}]

\* the file that reported an unknown element is loaded again: its define is a duplicate now
C29_Witness ==
    /\ Processed
    /\ Opened.doc = StrayDoc
    /\ <<<<"Y">>, <<"1">>>> \in pre.mDefines
    /\ last.out.err.errorcode = "DUPLICATE_DEFINE"
    /\ lib.mFiles = {}

(***************************************************************************)
(* Two instances: files are loaded by path into either, and either is      *)
(* assigned or copy-constructed from the other                             *)
(***************************************************************************)
Instances == {"A", "B"}

OtherThan(x) == IF x = "A" THEN "B" ELSE "A"

CopyFileSystems ==
    { fsys \in FileSystems :
          /\ ~fsys.hasFilesDir
          /\ \E dir \in {"cwd", "exe"} : <<dir, "a.cfg">> \in DOMAIN fsys.files }

CopyPaths ==
    { [abs |-> FALSE, dir |-> ".", file |-> f] : f \in {"a", "b"} }
        \cup { [abs |-> TRUE, dir |-> d, file |-> "a.cfg"] : d \in {"cwd", "exe"} }

InitCopies ==
    /\ lib = [heap |-> (1 :> LibraryData) @@ (2 :> LibraryData),
              mData |-> [x \in Instances |-> IF x = "A" THEN 1 ELSE 2]]
    /\ pre = lib
    /\ last = [op |-> "init", in |-> <<>>, out |-> <<>>]
    /\ okPaths = {}
    /\ fs \in CopyFileSystems
    /\ nOps = 0

\* load(exename, path) on instance x
LoadOn(x, exename, path) ==
    /\ nOps < MaxPathLoads
    /\ LET r == loadPath(DataOf(lib, x), fs, exename, path)
       IN  /\ lib' = [lib EXCEPT !.heap[lib.mData[x]] = r.data]
           /\ last' = [op |-> "loadOn", in |-> [instance |-> x, exename |-> exename, path |-> path],
                       out |-> [err |-> r.err, absolute_path |-> r.absolute_path]]
    /\ pre' = lib
    /\ nOps' = nOps + 1
    /\ UNCHANGED <<okPaths, fs>>

\* Library x(y): x is constructed anew as a copy of y
CopyConstruct(x, y) ==
    /\ nOps < MaxPathLoads
    /\ x # y
    /\ lib' = CopyOf(lib, x, y)
    /\ last' = [op |-> "copy", in |-> [instance |-> x, other |-> y], out |-> <<>>]
    /\ pre' = lib
    /\ nOps' = nOps + 1
    /\ UNCHANGED <<okPaths, fs>>

\* x = y
Assign(x, y) ==
    /\ nOps < MaxPathLoads
    /\ lib' = Assigned(lib, x, y)
    /\ last' = [op |-> "assign", in |-> [instance |-> x, other |-> y], out |-> <<>>]
    /\ pre' = lib
    /\ nOps' = nOps + 1
    /\ UNCHANGED <<okPaths, fs>>

NextCopies ==
    \/ \E x \in Instances, path \in CopyPaths : LoadOn(x, TRUE, path)
    \/ \E x \in Instances, y \in Instances : CopyConstruct(x, y)
    \/ \E x \in Instances, y \in Instances : Assign(x, y)

SpecCopies == InitCopies /\ [][NextCopies]_vars

(***************************************************************************)
(* C24: a load on one instance leaves the tables, the id counter and the   *)
(* loaded paths of the other instance as they were, also after one was     *)
(* copied or assigned from the other; the copy starts with the tables, the *)
(* id counter and the loaded paths of its origin, which stays as it was,   *)
(* so that a path loaded in the origin is a no-op in the copy; and         *)
(* self-assignment changes nothing.                                        *)
(***************************************************************************)
C24_CopiesAreIndependent ==
    /\ last.op = "loadOn" =>
          /\ DataOf(lib, OtherThan(last.in.instance)) = DataOf(pre, OtherThan(last.in.instance))
          /\ last.out.absolute_path \in DataOf(pre, last.in.instance).mFiles =>
                /\ last.out.err = OK
                /\ DataOf(lib, last.in.instance) = DataOf(pre, last.in.instance)
    /\ (last.op \in {"copy", "assign"} /\ last.in.instance # last.in.other) =>
          /\ DataOf(lib, last.in.instance) = DataOf(pre, last.in.other)
          /\ DataOf(lib, last.in.other) = DataOf(pre, last.in.other)
          /\ lib.mData[last.in.instance] # lib.mData[last.in.other]
    /\ (last.op = "assign" /\ last.in.instance = last.in.other) => lib = pre

\* B, made as a copy of A after A loaded a file, has loaded a file of its own; A is as it was
C24_Witness ==
    /\ last.op = "loadOn"
    /\ last.in.instance = "B"
    /\ lib.mData["B"] = 3
    /\ DataOf(pre, "A").mFiles # {}
    /\ DataOf(pre, "B") = DataOf(pre, "A")
    /\ DataOf(lib, "B") # DataOf(pre, "B")
    /\ DataOf(lib, "B").mAllocId > DataOf(lib, "A").mAllocId
    /\ DataOf(lib, "A") = DataOf(pre, "A")

(***************************************************************************)
(* The loader: documents of one or two elements are loaded                 *)
(***************************************************************************)
Elements ==
    { E("define", [name |-> <<"X">>, value |-> <<"1">>], NoText, <<>>),
      E("define", [name |-> <<"Y">>], NoText, <<>>),
      E("function", NoAttr, NoText, <<Leaf("pure")>>),
      E("function", [name |-> <<"foo">>], NoText,
            <<Leaf("pure"), Leaf("odd"), E("arg", [nr |-> <<"1">>], NoText, <<Leaf("zap")>>)>>),
      E("function", [name |-> <<"foo">>], NoText, <<Leaf("leak-ignore"), Leaf("arg")>>),
      E("function", [name |-> <<"foo">>], NoText, <<E("arg", [nr |-> <<"x">>], NoText, <<>>)>>),
      Leaf("stray"),
      E("smart-pointer", ("class-name" :> <<"p">>), NoText, <<Leaf("unique"), Leaf("extra")>>),
      E("type-checks", NoAttr, NoText,
            <<E("unusedvar", NoAttr, NoText,
                  <<E("check", NoAttr, <<"T">>, <<>>), E("bar", NoAttr, <<"T">>, <<>>)>>)>>),
      E("memory", NoAttr, NoText,
            <<E("alloc", [arg |-> <<"1">>], <<"A">>, <<>>), E("dealloc", NoAttr, <<"F">>, <<>>)>>),
      E("memory", NoAttr, NoText,
            <<E("alloc", [arg |-> <<"2">>], <<"A">>, <<>>),
              E("alloc", ("buffer-size" :> <<"mallox">>), <<"B">>, <<>>)>>),
      E("reflection", NoAttr, NoText,
            <<E("call", [arg |-> <<"1">>], <<"foo">>, <<>>), Leaf("odd")>>),
      E("markup", [ext |-> <<".x">>], NoText,
            <<E("keywords", NoAttr, NoText, <<E("keyword", [name |-> <<"k">>], NoText, <<>>),
                                              Leaf("zap")>>),
              Leaf("odd")>>),
      E("container", [id |-> <<"c">>], NoText,
            <<E("type", [string |-> <<"std-like">>], NoText, <<>>), Leaf("odd")>>),
      E("container", [id |-> <<"c">>, inherits |-> <<"d">>], NoText, <<>>),
      E("platformtype", [name |-> <<"t">>, value |-> <<"int">>], NoText,
            <<Leaf("unsigned"), Leaf("zap")>>) }

Documents ==
    { Def(<<e>>) : e \in Elements }
        \cup { Def(<<e, f>>) : e \in Elements, f \in Elements }
        \cup { E("other", NoAttr, NoText, <<E("function", NoAttr, NoText, <<Leaf("pure")>>)>>),
               E("def", [format |-> <<"3">>], NoText,
                 <<E("function", NoAttr, NoText, <<Leaf("pure")>>)>>) }

Next == \E doc \in Documents : LoadDocument(doc)

Spec == Init /\ [][Next]_vars

(***************************************************************************)
(* C7: a document that holds a function element without name attribute     *)
(* makes load return MissingAttribute("name").  As claimed: whatever       *)
(* stands before or after that element.  As amended: in a document of a    *)
(* supported root and format, when no element before it aborts the load.   *)
(***************************************************************************)
FunctionWithoutName(e) == e.name = "function" /\ ~HasAttribute(e, "name")

Unnamed == {i \in 1..Len(last.in.kids) : FunctionWithoutName(last.in.kids[i])}

FirstUnnamed == CHOOSE i \in Unnamed : \A j \in Unnamed : i <= j

Vocabulary ==
    [def |-> {"memory", "resource", "define", "function", "reflection", "markup", "container",
              "smart-pointer", "type-checks", "podtype", "platformtype", "entrypoint"},
     memory |-> {"alloc", "realloc", "dealloc", "use"},
     resource |-> {"alloc", "realloc", "dealloc", "use"},
     function |-> {"noreturn", "pure", "const", "leak-ignore", "not-overlapping-data",
                   "use-retval", "returnValue", "arg", "ignorefunction", "formatstr", "warn",
                   "container"},
     arg |-> {"not-bool", "not-null", "not-uninit", "formatstr", "strz", "valid", "minsize",
              "iterator"},
     reflection |-> {"call"},
     markup |-> {"keywords", "exported", "imported", "codeblocks"},
     keywords |-> {"keyword"},
     container |-> {"size", "access", "other", "type", "rangeItemRecordType"},
     platformtype |-> {"platform", "signed", "unsigned", "long", "pointer", "ptr_ptr",
                       "const_ptr"}]
        @@ ("smart-pointer" :> {"unique"})

RECURSIVE Unrecognized(_)
Unrecognized(node) ==
    IF node.name \notin DOMAIN Vocabulary THEN {}
    ELSE UNION { IF node.kids[i].name \notin Vocabulary[node.name]
                 THEN {node.kids[i].name}
                 ELSE Unrecognized(node.kids[i]) : i \in 1..Len(node.kids) }

C8_UnknownElementsReported ==
    (last.op = "load" /\ SupportedRoot(last.in)
        /\ After(Len(last.in.kids)).err = NoError) =>
            last.out = IF Unrecognized(last.in) = {} THEN OK
                       ELSE Error("UNKNOWN_ELEMENT", Ascending(Unrecognized(last.in)))

(***************************************************************************)
(* C9: when element k aborts the load, every table entry written by the    *)
(* elements 1..k-1 is still there after load returns, and the entries that *)
(* existed before and are not named by the elements 1..k are unchanged.    *)
(* As claimed: the entries written by 1..k-1 keep their value.  As         *)
(* amended: they keep their value unless element k names the same entry.   *)
(***************************************************************************)
Aborted ==
    /\ last.op = "load"
    /\ SupportedRoot(last.in)
    /\ last.out.errorcode \notin {"OK", "UNKNOWN_ELEMENT", "EXCEPTION", "CRASH"}

AbortIndex ==
    CHOOSE k \in 1..Len(last.in.kids) : After(k).err # NoError /\ After(k - 1).err = NoError

\* the tables as the elements before the aborting one left them
Mid == After(AbortIndex - 1).data

\* the names an element mentions, in its texts and attribute values at any depth
RECURSIVE Names(_)
Names(node) ==
    Range(getnames(node.text))
        \cup UNION {Range(getnames(node.attr[a])) : a \in DOMAIN node.attr}
        \cup UNION {Names(node.kids[i]) : i \in 1..Len(node.kids)}

\* the attribute values an element holds at any depth
RECURSIVE AttrValues(_)
AttrValues(node) ==
    {node.attr[a] : a \in DOMAIN node.attr}
        \cup UNION {AttrValues(node.kids[i]) : i \in 1..Len(node.kids)}

\* tables keyed by a name, tables keyed by an attribute value, other maps, sets
NameKeyed ==
    {"mAlloc", "mDealloc", "mRealloc", "mFunctions", "mNoReturn", "mReflection", "mPodTypes",
     "mPlatforms"}

ValueKeyed == {"mSmartPointers", "mContainers", "mPlatformTypes", "mKeywords"}

OtherMaps == {"mTypeChecks"}

SetTables == {"mDefines", "mMarkupExtensions", "mEntrypoints", "mFiles"}

\* the keys of table t that the elements before the aborting one wrote
Written(t) ==
    {key \in DOMAIN Mid[t] : key \notin DOMAIN pre[t] \/ pre[t][key] # Mid[t][key]}

NamedBy(t, key, elements) ==
    \/ t \in NameKeyed /\ \E i \in elements : key \in Names(last.in.kids[i])
    \/ t \in ValueKeyed /\ \E i \in elements : key \in AttrValues(last.in.kids[i])

Kept ==
    /\ \A t \in NameKeyed \cup ValueKeyed \cup OtherMaps : Written(t) \subseteq DOMAIN lib[t]
    /\ \A t \in SetTables : Mid[t] \subseteq lib[t]

Untouched ==
    /\ \A t \in NameKeyed \cup ValueKeyed :
          \A key \in DOMAIN pre[t] :
              ~NamedBy(t, key, 1..AbortIndex) =>
                  (key \in DOMAIN lib[t] /\ lib[t][key] = pre[t][key])
    /\ \A key \in DOMAIN pre.mTypeChecks :
          key \in DOMAIN lib.mTypeChecks /\ lib.mTypeChecks[key] = pre.mTypeChecks[key]
    /\ \A t \in SetTables : pre[t] \subseteq lib[t]

C9_Claimed ==
    Aborted =>
        /\ Kept
        /\ \A t \in NameKeyed \cup ValueKeyed \cup OtherMaps :
              \A key \in Written(t) : lib[t][key] = Mid[t][key]
        /\ Untouched

C9_NoRollback ==
    Aborted =>
        /\ Kept
        /\ \A t \in NameKeyed \cup ValueKeyed \cup OtherMaps :
              \A key \in Written(t) :
                  ~NamedBy(t, key, {AbortIndex}) => lib[t][key] = Mid[t][key]
        /\ Untouched

C9_Witness ==
    /\ Aborted
    /\ AbortIndex = 2
    /\ Mid # pre
    /\ \E t \in NameKeyed : Written(t) # {}
    /\ pre # LibraryData
    /\ lib # pre

====
